---- MODULE Spec2Model ----
(***************************************************************************)
(* Verification model of the gateway's resilient request-execution layer:  *)
(* the credential pool (app/services/grok/token.py), the proxy pool        *)
(* (app/core/proxy_pool.py) and the request executor                       *)
(* (app/services/grok/client.py).                                          *)
(*                                                                         *)
(* A partition of the pool is a Python dict, whose iteration order is the  *)
(* insertion order: it is modelled as a sequence of records, one per key.  *)
(* Optional values (None or a value) are sequences of length 0 or 1.       *)
(***************************************************************************)
EXTENDS Integers, Sequences, FiniteSets, TLC

VARIABLES
    token_data,     \* [process -> pool]: GrokTokenManager.token_data of each process
    store,          \* the shared token file: <<>> when it does not exist, else <<pool>>
    save_pending,   \* [process -> BOOLEAN]: GrokTokenManager._save_pending
    now,            \* the wall clock, in seconds (time.time())
    last,           \* the last operation run, with its arguments and its outcome
    proxy,          \* the ProxyPool singleton of process 1
    config,         \* the hot-reloadable configuration read by the request executor
    req,            \* the GrokClient._request call in progress: its arguments and locals
    events,         \* what that call did so far, in order: proxy calls, posts, sleeps,
                    \* tasks created, translation of the response
    tasks,          \* the tasks created with asyncio.create_task and not yet run
    call,           \* the GrokClient._retry frame around the _request calls
    video_token_map,\* GrokTokenManager._video_token_map of process 1
    subsec,         \* the milliseconds of the wall clock past the whole second
    pos,            \* [process -> how far it is in adding and flushing a credential]
    strm,           \* the locals of the process_stream generator and its position
    response,       \* the upstream response handed to the translator
    output,         \* the frames the translator has emitted, in order
    loop_time,      \* the event loop's monotonic clock, in seconds
    callers,        \* [task -> the get_proxy or force_refresh call it is in]
    lock,           \* ProxyPool._lock: <<>> when free, else <<the task holding it>>
    saver,          \* the batch save task and the shutdown of process 1
    reader          \* the read of the token file process 2 is in

reqvars == <<proxy, config, req, events, tasks>>
callvars == <<call>>
videovars == <<video_token_map, subsec>>
sharevars == <<pos>>
streamvars == <<strm, response, output, loop_time>>
proxyvars == <<callers, lock>>
savevars == <<saver, reader>>
vars == <<token_data, store, save_pending, now, last, proxy, config, req, events, tasks,
          call, video_token_map, subsec, pos, strm, response, output, loop_time,
          callers, lock, saver, reader>>

----------------------------------------------------------------------------
(* Bounds and constants *)

MaxTokens == 2          \* the largest number of records in a drawn pool
MaxTime == 2            \* the clock stops advancing MaxTime seconds after the start
MaxFlushFail == 1       \* failures recorded per secret while the flush is followed
MaxFail == 4            \* failedCount is not pushed beyond MaxFail
MaxFrames == 3          \* the largest number of lines read from an upstream body
MaxStreamTime == 4      \* the event loop's clock stops advancing at MaxStreamTime

MAX_FAILURES == 3
STATSIG_INVALID == 403
MAX_OUTER_RETRY == 3
MAX_RETRY == 3
RetryDelayMs == 500     \* asyncio.sleep(0.5) of _retry, in milliseconds
max_403_retries == 5
InnerDelayMs == 500     \* asyncio.sleep(0.5), in milliseconds
OuterDelayStepMs == 100 \* the 0.1 of (outer_retry + 1) * 0.1, in milliseconds
DefaultFetchInterval == 300
video_map_max_age == 3600
StartTime == 1000       \* the clock reading when the model starts

Procs == {1, 2}
Secrets == {"abc", "xyz"}
NORMAL == "ssoNormal"
SUPER == "ssoSuper"
TokenTypes == {NORMAL, SUPER}
HeavyModel == "grok-4-heavy"
ModelNames == {HeavyModel, "grok-3"}
QuotaValues == {-1, 0, 1, 2}

None == <<>>
Some(x) == <<x>>

----------------------------------------------------------------------------
(* Records *)

\* The record add_token writes for a new credential. createdTime is left out:
\* it is written here and read by no operation of the pool.
NewRecord(key) ==
    [ key |-> key,
      remainingQueries |-> -1,
      heavyremainingQueries |-> -1,
      status |-> "active",
      failedCount |-> 0,
      lastFailureTime |-> None,
      lastFailureReason |-> None,
      tags |-> <<>>,
      note |-> "" ]

EmptyPool == [ t \in TokenTypes |-> <<>> ]

Keys(tokens) == { tokens[i].key : i \in 1..Len(tokens) }

\* Index of key in a partition, 0 when absent (dict lookup).
RECURSIVE IndexFrom(_, _, _)
IndexFrom(tokens, key, i) ==
    IF i > Len(tokens) THEN 0
    ELSE IF tokens[i].key = key THEN i
    ELSE IndexFrom(tokens, key, i + 1)

IndexOf(tokens, key) == IndexFrom(tokens, key, 1)

\* get_token: the Cookie-style credential string built around the secret.
get_token_format(jwt) == [ sso_rw |-> jwt, sso |-> jwt ]

\* _extract_sso: the value of the "sso=" part.
extract_sso(auth_token) == auth_token.sso

----------------------------------------------------------------------------
(* Persistence primitives *)

\* _reload_if_needed in file mode: when the file exists, the in-memory pool is
\* replaced by the file's content; otherwise it is kept.
reload_if_needed(data) == IF store = None THEN data ELSE store[1]

----------------------------------------------------------------------------
(* select_token *)

\* Mutant of Skipped: the failure-count test is left out.
Skipped_NoFailureCheck(data, field) ==
    \/ data.status = "expired"
    \/ data[field] = 0

\* The candidate filter of select_best: expired status, too many failures,
\* exhausted quota.
Skipped(data, field) ==
    \/ data.status = "expired"
    \/ data.failedCount >= MAX_FAILURES
    \/ data[field] = 0

IsUnused(data, field) == ~Skipped(data, field) /\ data[field] = -1
IsUsed(data, field) == ~Skipped(data, field) /\ data[field] > 0

RECURSIVE UnusedKeys(_, _)
UnusedKeys(tokens, field) ==
    IF tokens = <<>> THEN <<>>
    ELSE (IF IsUnused(Head(tokens), field) THEN <<Head(tokens).key>> ELSE <<>>)
         \o UnusedKeys(Tail(tokens), field)

RECURSIVE UsedPairs(_, _)
UsedPairs(tokens, field) ==
    IF tokens = <<>> THEN <<>>
    ELSE (IF IsUsed(Head(tokens), field)
          THEN << <<Head(tokens).key, Head(tokens)[field]>> >> ELSE <<>>)
         \o UsedPairs(Tail(tokens), field)

\* Mutant of InsertDesc: equal pairs are reordered (an unstable sort).
RECURSIVE InsertDesc_Unstable(_, _)
InsertDesc_Unstable(sorted, x) ==
    IF sorted = <<>> THEN <<x>>
    ELSE IF Head(sorted)[2] > x[2]
         THEN <<Head(sorted)>> \o InsertDesc_Unstable(Tail(sorted), x)
    ELSE <<x>> \o sorted

\* list.sort(key=remaining, reverse=True): a stable sort, so pairs of equal
\* remaining keep their original order.
RECURSIVE InsertDesc(_, _)
InsertDesc(sorted, x) ==
    IF sorted = <<>> THEN <<x>>
    ELSE IF Head(sorted)[2] >= x[2] THEN <<Head(sorted)>> \o InsertDesc(Tail(sorted), x)
    ELSE <<x>> \o sorted

RECURSIVE SortDesc(_)
SortDesc(pairs) ==
    IF pairs = <<>> THEN <<>>
    ELSE InsertDesc(SortDesc(SubSeq(pairs, 1, Len(pairs) - 1)), pairs[Len(pairs)])

\* Mutant of select_best: metered candidates are preferred to unused ones.
select_best_UsedFirst(tokens, field) ==
    LET unused == UnusedKeys(tokens, field)
        used == SortDesc(UsedPairs(tokens, field))
    IN  IF used # <<>> THEN [ key |-> Some(used[1][1]), remaining |-> Some(used[1][2]) ]
        ELSE IF unused # <<>> THEN [ key |-> Some(unused[1]), remaining |-> Some(-1) ]
        ELSE [ key |-> None, remaining |-> None ]

\* select_best(tokens, field) -> (key, remaining); (None, None) when nothing fits.
select_best(tokens, field) ==
    LET unused == UnusedKeys(tokens, field)
        used == SortDesc(UsedPairs(tokens, field))
    IN  IF unused # <<>> THEN [ key |-> Some(unused[1]), remaining |-> Some(-1) ]
        ELSE IF used # <<>> THEN [ key |-> Some(used[1][1]), remaining |-> Some(used[1][2]) ]
        ELSE [ key |-> None, remaining |-> None ]

\* The quota field a model is judged on.
FieldOf(model) ==
    IF model = HeavyModel THEN "heavyremainingQueries" ELSE "remainingQueries"

\* Mutant of select_strategy: a heavy request falls back to the standard
\* partition.
select_strategy_HeavyFallback(snapshot, model) ==
    LET f == IF model = HeavyModel THEN "heavyremainingQueries" ELSE "remainingQueries"
        a == IF model = HeavyModel THEN SUPER ELSE NORMAL
        b == IF model = HeavyModel THEN NORMAL ELSE SUPER
        first == select_best(snapshot[a], f)
    IN  IF first.key # None
        THEN [ key |-> first.key, part |-> a ]
        ELSE [ key |-> select_best(snapshot[b], f).key, part |-> b ]

\* The selection strategy over a snapshot: (key, partition drawn from).
select_strategy(snapshot, model) ==
    IF model = HeavyModel
    THEN [ key |-> select_best(snapshot[SUPER], FieldOf(model)).key, part |-> SUPER ]
    ELSE LET first == select_best(snapshot[NORMAL], FieldOf(model))
         IN  IF first.key # None
             THEN [ key |-> first.key, part |-> NORMAL ]
             ELSE [ key |-> select_best(snapshot[SUPER], FieldOf(model)).key,
                    part |-> SUPER ]

NoOp == [ op |-> "none", p |-> 0, model |-> "", result |-> None, part |-> "",
          tok |-> "", type |-> "", status |-> 0, found |-> FALSE ]

\* select_token(model) in process p: reload, snapshot, select; a None key is
\* the NO_AVAILABLE_TOKEN exception.
select_token(p, model) ==
    LET data == reload_if_needed(token_data[p])
        sel == select_strategy(data, model)
    IN  /\ token_data' = [token_data EXCEPT ![p] = data]
        /\ last' = [NoOp EXCEPT !.op = "select_token", !.p = p, !.model = model,
                                !.result = sel.key,
                                !.part = IF sel.key = None THEN "" ELSE sel.part]
        /\ UNCHANGED <<store, save_pending, now>>

----------------------------------------------------------------------------
(* Pool operations *)

\* Mutant of DictSet: the record is added whether or not the key exists.
DictSet_Append(tokens, key, rec) == Append(tokens, rec)

\* dict[key] = rec: an existing key keeps its place, a new key goes last.
DictSet(tokens, key, rec) ==
    IF IndexOf(tokens, key) = 0 THEN Append(tokens, rec)
    ELSE [tokens EXCEPT ![IndexOf(tokens, key)] = rec]

\* del dict[key]
DictDel(tokens, key) ==
    SelectSeq(tokens, LAMBDA d : d.key # key)

\* _find_token(sso): the first partition, standard before premium, that holds
\* the secret; "" when none does.
find_token(data, sso) ==
    IF IndexOf(data[NORMAL], sso) # 0 THEN NORMAL
    ELSE IF IndexOf(data[SUPER], sso) # 0 THEN SUPER
    ELSE ""

\* The record _find_token returns (only used when one is found).
FoundRecord(data, sso) ==
    data[find_token(data, sso)][IndexOf(data[find_token(data, sso)], sso)]

\* The pool with the record _find_token returns replaced by rec.
SetFound(data, sso, rec) ==
    LET t == find_token(data, sso) IN
    [data EXCEPT ![t] = [@ EXCEPT ![IndexOf(data[t], sso)] = rec]]

\* A token of the list that add_token skips: empty or blank.
Blank(token) == token \in {"", " "}

\* add_token's loop over the list.
RECURSIVE AddAll(_, _)
AddAll(tokens, list) ==
    IF list = <<>> THEN tokens
    ELSE AddAll(IF Blank(Head(list)) THEN tokens
                ELSE DictSet(tokens, Head(list), NewRecord(Head(list))),
                Tail(list))

\* add_token(tokens, token_type) in process p.
add_token(p, list, type) ==
    /\ IF list = <<>>
       THEN UNCHANGED <<token_data, save_pending>>
       ELSE /\ token_data' = [token_data EXCEPT ![p][type] = AddAll(@, list)]
            /\ save_pending' = [save_pending EXCEPT ![p] = TRUE]
    /\ last' = [NoOp EXCEPT !.op = "add_token", !.p = p, !.type = type,
                            !.tok = IF list = <<>> THEN "" ELSE list[Len(list)]]
    /\ UNCHANGED <<store, now>>

RECURSIVE DelAll(_, _)
DelAll(tokens, list) ==
    IF list = <<>> THEN tokens
    ELSE DelAll(DictDel(tokens, Head(list)), Tail(list))

\* delete_token(tokens, token_type) in process p.
delete_token(p, list, type) ==
    /\ IF list = <<>>
       THEN UNCHANGED <<token_data, save_pending>>
       ELSE /\ token_data' = [token_data EXCEPT ![p][type] = DelAll(@, list)]
            /\ save_pending' = [save_pending EXCEPT ![p] = TRUE]
    /\ last' = [NoOp EXCEPT !.op = "delete_token", !.p = p, !.type = type,
                            !.tok = IF list = <<>> THEN "" ELSE list[Len(list)]]
    /\ UNCHANGED <<store, now>>

\* update_limits(sso, normal, heavy) in process p; normal and heavy are
\* optional.
update_limits(p, sso, normal, heavy) ==
    LET data == token_data[p]
        found == find_token(data, sso) # ""
        old == FoundRecord(data, sso)
        new == [old EXCEPT
                  !.remainingQueries = IF normal # None THEN normal[1] ELSE @,
                  !.heavyremainingQueries = IF heavy # None THEN heavy[1] ELSE @]
    IN  /\ IF found
           THEN /\ token_data' = [token_data EXCEPT ![p] = SetFound(data, sso, new)]
                /\ save_pending' = [save_pending EXCEPT ![p] = TRUE]
           ELSE UNCHANGED <<token_data, save_pending>>
        /\ last' = [NoOp EXCEPT !.op = "update_limits", !.p = p, !.tok = sso,
                                !.found = found]
        /\ UNCHANGED <<store, now>>

\* Mutant of Penalised: a 403 counts against the credential like any status.
Penalised_All(status) == TRUE

\* record_failure's first test: a 403 is logged and changes nothing.
Penalised(status) == status # STATSIG_INVALID

\* Mutant of fail_record: the threshold expires the credential whatever the
\* status code.
fail_record_ExpireAny(old, status, msg, t) ==
    [old EXCEPT
       !.failedCount = @ + 1,
       !.lastFailureTime = Some(t * 1000),
       !.lastFailureReason = Some(<<status, msg>>),
       !.status = IF old.failedCount + 1 >= MAX_FAILURES THEN "expired" ELSE @]

\* The record after a counted failure, at clock reading t.
fail_record(old, status, msg, t) ==
    [old EXCEPT
       !.failedCount = @ + 1,
       !.lastFailureTime = Some(t * 1000),
       !.lastFailureReason = Some(<<status, msg>>),
       !.status = IF 400 <= status /\ status < 500
                     /\ old.failedCount + 1 >= MAX_FAILURES
                  THEN "expired" ELSE @]

\* record_failure(auth_token, status, msg) in process p. The counter is
\* not pushed beyond MaxFail.
record_failure(p, auth_token, status, msg) ==
    LET data == token_data[p]
        sso == extract_sso(auth_token)
        found == find_token(data, sso) # ""
        counted == Penalised(status) /\ found
    IN  /\ counted => FoundRecord(data, sso).failedCount < MaxFail
        /\ IF counted
           THEN /\ token_data' = [token_data EXCEPT ![p] =
                     SetFound(data, sso, fail_record(FoundRecord(data, sso), status, msg, now))]
                /\ save_pending' = [save_pending EXCEPT ![p] = TRUE]
           ELSE UNCHANGED <<token_data, save_pending>>
        /\ last' = [NoOp EXCEPT !.op = "record_failure", !.p = p, !.tok = sso,
                                !.status = status, !.found = found]
        /\ UNCHANGED <<store, now>>

\* Mutant of reset_record: the failure reason is kept.
reset_record_KeepReason(old) ==
    [old EXCEPT !.failedCount = 0, !.lastFailureTime = None]

\* The record after reset_failure's three assignments.
reset_record(old) ==
    [old EXCEPT !.failedCount = 0, !.lastFailureTime = None, !.lastFailureReason = None]

\* reset_failure(auth_token) in process p: acts only on a record whose
\* failedCount is positive.
reset_failure(p, auth_token) ==
    LET data == token_data[p]
        sso == extract_sso(auth_token)
        found == find_token(data, sso) # ""
        acts == found /\ FoundRecord(data, sso).failedCount > 0
    IN  /\ IF acts
           THEN /\ token_data' = [token_data EXCEPT ![p] =
                     SetFound(data, sso, reset_record(FoundRecord(data, sso)))]
                /\ save_pending' = [save_pending EXCEPT ![p] = TRUE]
           ELSE UNCHANGED <<token_data, save_pending>>
        /\ last' = [NoOp EXCEPT !.op = "reset_failure", !.p = p, !.tok = sso,
                                !.found = found]
        /\ UNCHANGED <<store, now>>

\* One round of _batch_save_worker after its sleep, in file mode: a pending
\* pool is written to the file as a whole and the flag is cleared.
batch_save(p) ==
    /\ save_pending[p]
    /\ store' = Some(token_data[p])
    /\ save_pending' = [save_pending EXCEPT ![p] = FALSE]
    /\ last' = [NoOp EXCEPT !.op = "batch_save", !.p = p]
    /\ UNCHANGED <<token_data, now>>

\* What strip() leaves of a text: nothing of a blank one, and " n" loses its
\* leading blank.
Strip(text) ==
    IF Blank(text) THEN "" ELSE IF text = " n" THEN "n" ELSE text

\* The tags update_token_tags keeps: the non-blank ones.
CleanTags(tags) == SelectSeq(tags, LAMBDA t : ~Blank(t))

\* update_token_tags(token, token_type, tags) in process p: TOKEN_NOT_FOUND is
\* raised for a token that is not in the partition.
update_token_tags(p, token, type, tags) ==
    LET i == IndexOf(token_data[p][type], token) IN
    /\ IF i # 0
       THEN /\ token_data' = [token_data EXCEPT ![p][type][i].tags = CleanTags(tags)]
            /\ save_pending' = [save_pending EXCEPT ![p] = TRUE]
       ELSE UNCHANGED <<token_data, save_pending>>
    /\ last' = [NoOp EXCEPT !.op = "update_token_tags", !.p = p, !.type = type,
                            !.tok = token, !.found = i # 0]
    /\ UNCHANGED <<store, now>>

\* update_token_note(token, token_type, note) in process p.
update_token_note(p, token, type, note) ==
    LET i == IndexOf(token_data[p][type], token) IN
    /\ IF i # 0
       THEN /\ token_data' = [token_data EXCEPT ![p][type][i].note = Strip(note)]
            /\ save_pending' = [save_pending EXCEPT ![p] = TRUE]
       ELSE UNCHANGED <<token_data, save_pending>>
    /\ last' = [NoOp EXCEPT !.op = "update_token_note", !.p = p, !.type = type,
                            !.tok = token, !.found = i # 0]
    /\ UNCHANGED <<store, now>>

\* The batch save task and the shutdown of a process: whether a storage
\* backend is set (_storage), where the task is (asleep between two rounds,
\* suspended inside the backend's save, cancelled), the pool the suspended
\* save was handed, and whether shutdown() has run.
IdleSaver(storage) ==
    [ storage |-> storage, pc |-> "sleeping", snapshot |-> None, shutdown |-> FALSE ]

\* A round of _batch_save_worker with a storage backend begins: the pool is
\* pending, _save_data hands it to the backend and the task is suspended in
\* that await.
storage_save_begin(p) ==
    /\ saver.storage /\ ~saver.shutdown
    /\ saver.pc = "sleeping"
    /\ save_pending[p]
    /\ saver' = [saver EXCEPT !.pc = "saving", !.snapshot = Some(token_data[p])]
    /\ last' = [NoOp EXCEPT !.op = "save_begin", !.p = p]
    /\ UNCHANGED <<token_data, store, save_pending, now>>

\* The backend's save returns: what it wrote is the pool as it was handed over
\* or as it is now, by when the backend serialised it; the task clears the
\* flag and sleeps.
storage_save_end(p) ==
    /\ saver.pc = "saving"
    /\ store' \in { saver.snapshot, Some(token_data[p]) }
    /\ save_pending' = [save_pending EXCEPT ![p] = FALSE]
    /\ saver' = [saver EXCEPT !.pc = "sleeping", !.snapshot = None]
    /\ last' = [NoOp EXCEPT !.op = "batch_save", !.p = p]
    /\ UNCHANGED <<token_data, now>>

\* shutdown(): the task is cancelled (a save it is suspended in is abandoned)
\* and a pending pool is saved.
shutdown(p) ==
    /\ ~saver.shutdown
    /\ saver' = [saver EXCEPT !.pc = "cancelled", !.snapshot = None, !.shutdown = TRUE]
    /\ store' = IF save_pending[p] THEN Some(token_data[p]) ELSE store
    /\ last' = [NoOp EXCEPT !.op = "shutdown", !.p = p]
    /\ UNCHANGED <<token_data, save_pending, now>>

\* _save_data with the token file, seen from another process. open(.., "w")
\* empties the file; portalocker.lock then waits for the exclusive lock while
\* a reader holds the shared one; the document is written and the lock given
\* back when the file is closed.
file_save_open(p) ==
    /\ ~saver.storage /\ ~saver.shutdown
    /\ saver.pc = "sleeping"
    /\ save_pending[p]
    /\ saver' = [saver EXCEPT !.pc = "opened"]
    /\ last' = [NoOp EXCEPT !.op = "save_open", !.p = p]
    /\ UNCHANGED <<token_data, store, save_pending, now, reader>>

\* The writer takes the exclusive lock.
file_save_lock(p) ==
    /\ saver.pc = "opened"
    /\ reader.pc # "locked"
    /\ saver' = [saver EXCEPT !.pc = "locked"]
    /\ last' = [NoOp EXCEPT !.op = "save_lock", !.p = p]
    /\ UNCHANGED <<token_data, store, save_pending, now, reader>>

\* The writer writes the document, unlocks and closes; the task clears the
\* flag.
file_save_write(p) ==
    /\ saver.pc = "locked"
    /\ store' = Some(token_data[p])
    /\ save_pending' = [save_pending EXCEPT ![p] = FALSE]
    /\ saver' = [saver EXCEPT !.pc = "sleeping"]
    /\ last' = [NoOp EXCEPT !.op = "batch_save", !.p = p]
    /\ UNCHANGED <<token_data, now, reader>>

\* A process that is not reading the file: where its read is, and what the
\* last read returned ("" before any read).
IdleReader == [ pc |-> "idle", got |-> "" ]

\* What the file holds for a reader: nothing between the writer's open and
\* its write, else the last document written.
Emptied == saver.pc \in {"opened", "locked"}

\* _reload_if_needed in process p opens the file, which exists.
reload_open(p) ==
    /\ reader.pc = "idle"
    /\ store # None
    /\ reader' = [reader EXCEPT !.pc = "opened"]
    /\ last' = [NoOp EXCEPT !.op = "reload_open", !.p = p]
    /\ UNCHANGED <<token_data, store, save_pending, now, saver>>

\* The reader takes the shared lock, which waits while the writer holds the
\* exclusive one.
reload_lock(p) ==
    /\ reader.pc = "opened"
    /\ saver.pc # "locked"
    /\ reader' = [reader EXCEPT !.pc = "locked"]
    /\ last' = [NoOp EXCEPT !.op = "reload_lock", !.p = p]
    /\ UNCHANGED <<token_data, store, save_pending, now, saver>>

\* The reader reads and unlocks. orjson.loads of an empty file raises, the
\* exception is logged and the pool in memory is kept; a document replaces
\* the pool. select_token then selects.
reload_read(p, model) ==
    LET data == IF Emptied THEN token_data[p] ELSE store[1]
        sel == select_strategy(data, model)
    IN  /\ reader.pc = "locked"
        /\ reader' = [ pc |-> "idle", got |-> IF Emptied THEN "empty" ELSE "document" ]
        /\ token_data' = [token_data EXCEPT ![p] = data]
        /\ last' = [NoOp EXCEPT !.op = "select_token", !.p = p, !.model = model,
                                !.result = sel.key,
                                !.part = IF sel.key = None THEN "" ELSE sel.part]
        /\ UNCHANGED <<store, save_pending, now, saver>>

\* The clock advances by one second.
Tick ==
    /\ now < StartTime + MaxTime
    /\ now' = now + 1
    /\ last' = [NoOp EXCEPT !.op = "tick"]
    /\ UNCHANGED <<token_data, store, save_pending>>

----------------------------------------------------------------------------
(* The video affinity map *)

\* The wall clock reads now seconds and subsec milliseconds; int(time.time())
\* is now. An entry of _video_token_map is the video id (key), the credential
\* string and the truncated timestamp; ms is what the truncation dropped, kept
\* to state the claims: no operation reads it.
VideoEntry(video_id, auth_token, t, ms) ==
    [ key |-> video_id, token |-> auth_token, timestamp |-> t, ms |-> ms ]

\* _cleanup_video_map at clock reading t: entries older than the maximum age
\* are deleted.
cleanup_video_map(map, t) ==
    SelectSeq(map, LAMBDA e : ~(t - e.timestamp > video_map_max_age))

\* Mutant of Fresh: an entry of exactly the maximum age is still returned.
Fresh_Inclusive(t, timestamp) == t - timestamp <= video_map_max_age

\* get_video_token's test that an entry has not expired.
Fresh(t, timestamp) == t - timestamp < video_map_max_age

\* register_video_token(video_id, auth_token): cleanup, then the entry is
\* written.
register_video_token(video_id, auth_token) ==
    /\ video_token_map' = DictSet(cleanup_video_map(video_token_map, now), video_id,
                                  VideoEntry(video_id, auth_token, now, subsec))
    /\ last' = [NoOp EXCEPT !.op = "register_video_token", !.tok = video_id]
    /\ UNCHANGED <<now, subsec>>

\* get_video_token(video_id): the credential of a fresh entry; an expired
\* entry is deleted and None returned, as for an unknown id.
get_video_token(video_id) ==
    LET i == IndexOf(video_token_map, video_id) IN
    /\ IF i # 0 /\ ~Fresh(now, video_token_map[i].timestamp)
       THEN video_token_map' = DictDel(video_token_map, video_id)
       ELSE UNCHANGED video_token_map
    /\ last' = [NoOp EXCEPT !.op = "get_video_token", !.tok = video_id,
                            !.found = i # 0,
                            !.result = IF i # 0 /\ Fresh(now, video_token_map[i].timestamp)
                                       THEN Some(video_token_map[i].token) ELSE None]
    /\ UNCHANGED <<now, subsec>>

\* Time passes: the clock moves on to the reading (t, ms).
pass_time(t, ms) ==
    /\ t > now \/ (t = now /\ ms > subsec)
    /\ now' = t
    /\ subsec' = ms
    /\ last' = [NoOp EXCEPT !.op = "pass_time"]
    /\ UNCHANGED video_token_map

----------------------------------------------------------------------------
(* ProxyPool *)

\* An address is a record of its scheme and the rest; an optional address is
\* None or Some(address).
Address(scheme, host) == [ scheme |-> scheme, host |-> host ]

\* _normalize_proxy: sock5/sock5h are spelling variants, socks5 becomes socks5h.
normalize_proxy(a) ==
    LET s1 == IF a.scheme = "sock5h" THEN "socks5h" ELSE a.scheme
        s2 == IF s1 = "sock5" THEN "socks5" ELSE s1
        s3 == IF s2 = "socks5" THEN "socks5h" ELSE s2
    IN  [a EXCEPT !.scheme = s3]

\* _validate_proxy
validate_proxy(a) ==
    /\ a.scheme # ""
    /\ a.scheme \in {"http", "https", "socks5", "socks5h"}

\* The pool after configure(proxy_url, proxy_pool_url): with a pool URL the
\* rotation is enabled and no address is cached; without one the static
\* address is the current one.
configured_proxy(static, rotating) ==
    [ enabled |-> rotating,
      static_proxy |-> static,
      current_proxy |-> IF rotating THEN None ELSE static,
      last_fetch_time |-> 0,
      fetch_interval |-> DefaultFetchInterval ]

fetch_fallback_Static(px) == [px EXCEPT !.current_proxy = px.static_proxy]

\* The fallback of _fetch_proxy on every failure: the static address when
\* nothing is cached.
fetch_fallback(px) ==
    IF px.current_proxy = None THEN [px EXCEPT !.current_proxy = px.static_proxy] ELSE px

\* _fetch_proxy at clock reading t; reply is what the pool source answers:
\* ok (HTTP 200) with an address text, or a failure.
fetch_proxy(px, reply, t) ==
    IF reply.ok
    THEN IF validate_proxy(normalize_proxy(reply.addr))
         THEN [px EXCEPT !.current_proxy = Some(normalize_proxy(reply.addr)),
                         !.last_fetch_time = t]
         ELSE fetch_fallback(px)
    ELSE fetch_fallback(px)

\* The staleness test of get_proxy with the clock reading t taken at its start:
\* nothing is cached, or the cached address is fetch_interval old.
Stale(px, t) == px.current_proxy = None \/ (t - px.last_fetch_time) >= px.fetch_interval

\* get_proxy: the pool after the call.
get_proxy(px, reply, t) ==
    IF ~px.enabled THEN px
    ELSE IF Stale(px, t)
         THEN fetch_proxy(px, reply, t)
         ELSE px

\* force_refresh: the pool after the call.
force_refresh(px, reply, t) ==
    IF ~px.enabled THEN px ELSE fetch_proxy(px, reply, t)

\* setting.get_proxy_async("service"): the configuration's way to the proxy
\* pool's get_proxy.
get_proxy_async(px, reply, t) == get_proxy(px, reply, t)

----------------------------------------------------------------------------
(* ProxyPool under concurrent callers *)

\* The tasks of the event loop that call the proxy pool.
Callers == {1, 2}

\* A task outside the proxy pool. Inside a call: op is the method, now the
\* clock reading get_proxy took at its start, fetched the number of fetches
\* the call has started, queued the method of the call that held the lock when
\* this one had to wait for it, ret the value returned.
IdleCaller ==
    [ pc |-> "idle", op |-> "", now |-> 0, fetched |-> 0, queued |-> "", ret |-> None ]

NeedsFetch_AgeOnly(op, px, t) == Stale(px, t)

\* Whether a call of an enabled pool fetches: force_refresh always, get_proxy
\* when its staleness test holds.
NeedsFetch(op, px, t) == op = "force_refresh" \/ Stale(px, t)

\* Task t calls get_proxy or force_refresh and runs to its first suspension:
\* the return of a disabled pool or of a fresh cache, the wait for the lock,
\* or, the lock being free, the start of the fetch.
proxy_call(t, op) ==
    /\ callers[t].pc \in {"idle", "done"}
    /\ LET c == [IdleCaller EXCEPT !.op = op, !.now = now]
           busy == lock # None \/ \E u \in Callers : callers[u].pc = "waiting"
       IN  IF ~proxy.enabled
           THEN /\ callers' = [callers EXCEPT ![t] =
                                  [c EXCEPT !.pc = "done", !.ret = proxy.static_proxy]]
                /\ UNCHANGED lock
           ELSE IF ~NeedsFetch(op, proxy, now)
           THEN /\ callers' = [callers EXCEPT ![t] =
                                  [c EXCEPT !.pc = "done", !.ret = proxy.current_proxy]]
                /\ UNCHANGED lock
           ELSE IF busy
           THEN /\ callers' = [callers EXCEPT ![t] =
                                  [c EXCEPT !.pc = "waiting",
                                            !.queued = IF lock # None
                                                       THEN callers[lock[1]].op
                                                       ELSE "waiter"]]
                /\ UNCHANGED lock
           ELSE /\ callers' = [callers EXCEPT ![t] =
                                  [c EXCEPT !.pc = "fetching", !.fetched = 1]]
                /\ lock' = Some(t)
    /\ last' = [NoOp EXCEPT !.op = op, !.p = t]
    /\ UNCHANGED <<proxy, now>>

\* The lock comes to waiting task t: get_proxy repeats its staleness test with
\* the clock reading of its start, force_refresh fetches.
proxy_locked(t) ==
    /\ callers[t].pc = "waiting"
    /\ lock = None
    /\ IF NeedsFetch(callers[t].op, proxy, callers[t].now)
       THEN /\ callers' = [callers EXCEPT ![t].pc = "fetching", ![t].fetched = @ + 1]
            /\ lock' = Some(t)
       ELSE /\ callers' = [callers EXCEPT ![t].pc = "done",
                                          ![t].ret = proxy.current_proxy]
            /\ UNCHANGED lock
    /\ last' = [NoOp EXCEPT !.op = "lock", !.p = t]
    /\ UNCHANGED <<proxy, now>>

\* The fetch of task t ends with the pool source's reply: _fetch_proxy updates
\* the pool, the lock is released and the call returns the current address.
proxy_fetched(t, reply) ==
    /\ callers[t].pc = "fetching"
    /\ lock = Some(t)
    /\ proxy' = fetch_proxy(proxy, reply, now)
    /\ callers' = [callers EXCEPT ![t].pc = "done", ![t].ret = proxy'.current_proxy]
    /\ lock' = None
    /\ last' = [NoOp EXCEPT !.op = "fetch_proxy", !.p = t,
                            !.status = IF reply.ok THEN 200 ELSE 500,
                            !.result = IF reply.ok THEN Some(reply.addr) ELSE None]
    /\ UNCHANGED now

----------------------------------------------------------------------------
(* GrokClient._request *)

IdleReq ==
    [ pc |-> "idle", token |-> get_token_format(""), model |-> "", stream |-> FALSE,
      outer_retry |-> 0, retry_403_count |-> 0, outcome |-> "", status |-> 0,
      failed_at_start |-> 0 ]

\* Mutant of UseForceRefresh: a retry after a 403 takes the cached address.
UseForceRefresh_Never(count, enabled) == FALSE

\* Whether an attempt refreshes the proxy instead of taking the cached one.
UseForceRefresh(count, enabled) == count > 0 /\ enabled

\* Mutant of InnerRetry: every error status starts a proxy rotation retry.
InnerRetry_AnyError(status, enabled) == status # 200 /\ enabled

\* Mutant of InnerRetry: a 403 starts a retry without a rotating pool too.
InnerRetry_NoPoolCheck(status, enabled) == status = 403

\* Whether a response starts an inner (proxy rotation) retry.
InnerRetry(status, enabled) == status = 403 /\ enabled

\* Mutant of OuterDelay: every outer retry waits the same time.
OuterDelay_Fixed(outer_retry) == OuterDelayStepMs

\* The wait before the next outer attempt, in milliseconds.
OuterDelay(outer_retry) == (outer_retry + 1) * OuterDelayStepMs

\* The message _handle_error reports: fixed for a 403, else the start of the
\* response body.
ErrorMsg(status) == IF status = 403 THEN "Your IP is blocked" ELSE "error"

\* A task made with asyncio.create_task by the call rq: the coroutine's name
\* and arguments, and for the quota probe the counters of its two loops.
Task(name, rq, status, msg) ==
    [ name |-> name, token |-> rq.token, model |-> rq.model, status |-> status,
      msg |-> msg, outer_retry |-> 0, retry_403_count |-> 0 ]

\* _handle_error: a record_failure task is created and HTTP_ERROR is raised.
handle_error(rq, status) ==
    [ req |-> [rq EXCEPT !.pc = "done", !.outcome = "HTTP_ERROR", !.status = status],
      events |-> << <<"post", status>>, <<"record_failure", status>> >>,
      tasks |-> << Task("record_failure", rq, status, ErrorMsg(status)) >> ]

\* Mutant of handle_success: no reset_failure task is created.
handle_success_NoReset(rq, body) ==
    IF rq.stream \/ body = "ok"
    THEN [ req |-> [rq EXCEPT !.pc = "done", !.outcome = "ok", !.status = 200],
           events |-> << <<"post", 200>>, <<"translate", 1>>, <<"update_limits", 0>> >>,
           tasks |-> << Task("update_limits", rq, 0, "") >> ]
    ELSE [ req |-> [rq EXCEPT !.pc = "done", !.outcome = "PROCESS_ERROR", !.status = 200],
           events |-> << <<"post", 200>>, <<"translate", 0>> >>,
           tasks |-> <<>> ]

\* The success path: a reset_failure task, the translation of the response
\* (process_stream returns a generator; process_normal may raise), then an
\* update_limits task.
handle_success(rq, body) ==
    IF rq.stream \/ body = "ok"
    THEN [ req |-> [rq EXCEPT !.pc = "done", !.outcome = "ok", !.status = 200],
           events |-> << <<"post", 200>>, <<"reset_failure", 0>>, <<"translate", 1>>,
                         <<"update_limits", 0>> >>,
           tasks |-> << Task("reset_failure", rq, 0, ""),
                        Task("update_limits", rq, 0, "") >> ]
    ELSE [ req |-> [rq EXCEPT !.pc = "done", !.outcome = "PROCESS_ERROR", !.status = 200],
           events |-> << <<"post", 200>>, <<"reset_failure", 0>>, <<"translate", 0>> >>,
           tasks |-> << Task("reset_failure", rq, 0, "") >> ]

\* Mutant of after_response: the last outer attempt leaves the loop like the
\* others, and the call ends with the error that follows the loop.
after_response_FallsThrough(rq, reply, enabled, retry_codes) ==
    IF reply.kind = "neterr"
    THEN [ req |-> [rq EXCEPT !.pc = "done", !.outcome = "NETWORK_ERROR"],
           events |-> << <<"neterr", 0>> >>,
           tasks |-> <<>> ]
    ELSE
    LET status == reply.status
        count == IF InnerRetry(status, enabled)
                 THEN rq.retry_403_count + 1 ELSE rq.retry_403_count
        rq1 == [rq EXCEPT !.retry_403_count = count]
    IN  IF InnerRetry(status, enabled) /\ count <= max_403_retries
        THEN [ req |-> rq1,
               events |-> << <<"post", status>>, <<"sleep", InnerDelayMs>> >>,
               tasks |-> <<>> ]
        ELSE IF status \in retry_codes
        THEN IF rq.outer_retry < MAX_OUTER_RETRY
             THEN [ req |-> [rq EXCEPT !.outer_retry = @ + 1, !.retry_403_count = 0],
                    events |-> << <<"post", status>>,
                                  <<"sleep", OuterDelay(rq.outer_retry)>> >>,
                    tasks |-> <<>> ]
             ELSE [ req |-> [rq1 EXCEPT !.pc = "done", !.outcome = "MAX_RETRIES_EXCEEDED",
                                        !.status = status],
                    events |-> << <<"post", status>>,
                                  <<"sleep", OuterDelay(rq.outer_retry)>> >>,
                    tasks |-> <<>> ]
        ELSE IF status # 200 THEN handle_error(rq1, status)
        ELSE handle_success(rq1, reply.body)

\* What one pass of the inner loop does with the upstream's reply.
after_response(rq, reply, enabled, retry_codes) ==
    IF reply.kind = "neterr"
    THEN [ req |-> [rq EXCEPT !.pc = "done", !.outcome = "NETWORK_ERROR"],
           events |-> << <<"neterr", 0>> >>,
           tasks |-> <<>> ]
    ELSE
    LET status == reply.status
        count == IF InnerRetry(status, enabled)
                 THEN rq.retry_403_count + 1 ELSE rq.retry_403_count
        rq1 == [rq EXCEPT !.retry_403_count = count]
    IN  IF InnerRetry(status, enabled) /\ count <= max_403_retries
        THEN [ req |-> rq1,
               events |-> << <<"post", status>>, <<"sleep", InnerDelayMs>> >>,
               tasks |-> <<>> ]
        ELSE IF status \in retry_codes
        THEN IF rq.outer_retry < MAX_OUTER_RETRY
             THEN [ req |-> [rq EXCEPT !.outer_retry = @ + 1, !.retry_403_count = 0],
                    events |-> << <<"post", status>>,
                                  <<"sleep", OuterDelay(rq.outer_retry)>> >>,
                    tasks |-> <<>> ]
             ELSE handle_error(rq1, status)
        ELSE IF status # 200 THEN handle_error(rq1, status)
        ELSE handle_success(rq1, reply.body)

\* One pass of the inner loop of _request: take a proxy, post, classify the
\* reply. fetch is the pool source's answer, should the proxy pool ask it.
request_attempt(reply, fetch) ==
    /\ req.pc = "attempt"
    /\ LET refresh == UseForceRefresh(req.retry_403_count, proxy.enabled)
           r == after_response(req, reply, proxy.enabled, config.retry_codes)
       IN  /\ proxy' = IF refresh THEN force_refresh(proxy, fetch, now)
                       ELSE get_proxy_async(proxy, fetch, now)
           /\ req' = r.req
           /\ events' = events
                \o << IF refresh THEN <<"force_refresh", 0>> ELSE <<"get_proxy", 0>> >>
                \o r.events
           /\ tasks' = tasks \o r.tasks
    /\ last' = [NoOp EXCEPT !.op = "request_attempt"]
    /\ UNCHANGED <<token_data, store, save_pending, now, config>>

RemoveAt(seq, i) == SubSeq(seq, 1, i - 1) \o SubSeq(seq, i + 1, Len(seq))

\* A created reset_failure or record_failure task runs (in process 1).
run_task(i) ==
    /\ i \in 1..Len(tasks)
    /\ tasks[i].name \in {"reset_failure", "record_failure"}
    /\ IF tasks[i].name = "reset_failure"
       THEN reset_failure(1, tasks[i].token)
       ELSE record_failure(1, tasks[i].token, tasks[i].status, tasks[i].msg)
    /\ tasks' = RemoveAt(tasks, i)
    /\ UNCHANGED <<proxy, config, req, events>>

----------------------------------------------------------------------------
(* The quota probe: GrokClient._update_limits and check_limits *)

\* What one pass of check_limits' inner loop does with the reply of the
\* rate-limit endpoint: go on (after a wait) or end, and what it does to the
\* pool: nothing, a record_failure, an update_limits. Any exception (the post,
\* the decoding of the body) ends the probe with None.
probe_response(t, reply, enabled, retry_codes) ==
    IF reply.kind = "neterr" \/ (reply.status = 200 /\ reply.body = "bad")
    THEN [ done |-> TRUE, task |-> t, effect |-> "none", status |-> reply.status ]
    ELSE
    LET status == reply.status
        count == IF InnerRetry(status, enabled)
                 THEN t.retry_403_count + 1 ELSE t.retry_403_count
        t1 == [t EXCEPT !.retry_403_count = count]
        exhausted == InnerRetry(status, enabled) /\ count > max_403_retries
    IN  IF InnerRetry(status, enabled) /\ count <= max_403_retries
        THEN [ done |-> FALSE, task |-> t1, effect |-> "none", status |-> status ]
        ELSE IF status \in retry_codes
        THEN IF t.outer_retry < MAX_OUTER_RETRY
             THEN [ done |-> FALSE,
                    task |-> [t EXCEPT !.outer_retry = @ + 1, !.retry_403_count = 0],
                    effect |-> IF exhausted THEN "record_failure" ELSE "none",
                    status |-> status ]
             ELSE [ done |-> TRUE, task |-> t1, effect |-> "record_failure",
                    status |-> status ]
        ELSE IF status = 200
        THEN [ done |-> TRUE, task |-> t1, effect |-> "update_limits", status |-> status ]
        ELSE [ done |-> TRUE, task |-> t1, effect |-> "record_failure", status |-> status ]

\* The reason check_limits gives to record_failure.
ProbeMsg(status) == IF status = 401 THEN "Token expired" ELSE "errors"

\* One pass of the inner loop of check_limits for the pending probe task i:
\* take a proxy, post to the rate-limit endpoint, classify the reply.
probe_attempt(i, reply, fetch) ==
    /\ i \in 1..Len(tasks)
    /\ tasks[i].name = "update_limits"
    /\ LET t == tasks[i]
           refresh == UseForceRefresh(t.retry_403_count, proxy.enabled)
           r == probe_response(t, reply, proxy.enabled, config.retry_codes)
           quota == IF reply.quota = None THEN Some(-1) ELSE reply.quota
       IN  /\ proxy' = IF refresh THEN force_refresh(proxy, fetch, now)
                       ELSE get_proxy_async(proxy, fetch, now)
           /\ tasks' = IF r.done THEN RemoveAt(tasks, i) ELSE [tasks EXCEPT ![i] = r.task]
           /\ IF r.effect = "record_failure"
              THEN record_failure(1, t.token, r.status, ProbeMsg(r.status))
              ELSE IF r.effect = "update_limits"
              THEN IF t.model = HeavyModel
                   THEN update_limits(1, extract_sso(t.token), None, quota)
                   ELSE update_limits(1, extract_sso(t.token), quota, None)
              ELSE /\ last' = [NoOp EXCEPT !.op = "check_limits", !.status = r.status]
                   /\ UNCHANGED <<token_data, store, save_pending, now>>
    /\ UNCHANGED <<config, req, events>>

----------------------------------------------------------------------------
(* GrokClient._retry *)

IdleCall ==
    [ pc |-> "idle", i |-> 0, model |-> "", stream |-> FALSE, error_code |-> "",
      status |-> 0 ]

\* The _request call that _retry starts with the credential it acquired.
StartedRequest(sso, model, stream, data) ==
    [ IdleReq EXCEPT !.pc = "attempt", !.token = get_token_format(sso),
                     !.model = model, !.stream = stream,
                     !.failed_at_start = FoundRecord(data, sso).failedCount ]

\* One pass of _retry's loop up to the _request call: get_token (select_token
\* and the Cookie format), no image to upload, then _request starts. Without a
\* credential NO_AVAILABLE_TOKEN is raised; its context carries no status, so
\* the handler of the loop raises it again.
retry_acquire ==
    /\ call.pc = "loop"
    /\ select_token(1, call.model)
    /\ LET sel == select_strategy(reload_if_needed(token_data[1]), call.model) IN
       IF sel.key = None
       THEN /\ call' = [call EXCEPT !.pc = "raised", !.error_code = "NO_AVAILABLE_TOKEN",
                                     !.status = 0]
            /\ events' = Append(events, <<"get_token", 0>>)
            /\ UNCHANGED req
       ELSE /\ call' = [call EXCEPT !.pc = "request"]
            /\ events' = Append(events, <<"get_token", 1>>)
            /\ req' = StartedRequest(sel.key[1], call.model, call.stream,
                                     reload_if_needed(token_data[1]))
    /\ UNCHANGED <<proxy, config, tasks>>

\* Whether _retry's handler goes round the loop again on an error.
Retryable(error_code, status, retry_codes) ==
    /\ error_code \in {"HTTP_ERROR", "NO_AVAILABLE_TOKEN"}
    /\ status \in retry_codes

\* The end of the _request call inside _retry: its result is returned, or its
\* exception is handled: raised again, or the loop goes on after a 0.5 s wait
\* (no wait after the last pass, which raises the last error).
retry_handle ==
    /\ call.pc = "request"
    /\ req.pc = "done"
    /\ IF req.outcome = "ok"
       THEN /\ call' = [call EXCEPT !.pc = "returned"]
            /\ UNCHANGED events
       ELSE IF ~Retryable(req.outcome, req.status, config.retry_codes)
       THEN /\ call' = [call EXCEPT !.pc = "raised", !.error_code = req.outcome,
                                     !.status = req.status]
            /\ UNCHANGED events
       ELSE IF call.i < MAX_RETRY - 1
       THEN /\ call' = [call EXCEPT !.pc = "loop", !.i = @ + 1]
            /\ events' = Append(events, <<"retry_sleep", RetryDelayMs>>)
       ELSE /\ call' = [call EXCEPT !.pc = "raised", !.error_code = req.outcome,
                                     !.status = req.status]
            /\ UNCHANGED events
    /\ req' = [req EXCEPT !.pc = "idle"]
    /\ last' = [NoOp EXCEPT !.op = "retry_handle"]
    /\ UNCHANGED <<token_data, store, save_pending, now, proxy, config, tasks>>

----------------------------------------------------------------------------
(* The streaming translator: StreamTimeoutManager and process_stream *)

\* A frame emitted to the client: a chunk made by make_chunk, whose content is
\* a sequence of text pieces (empty for an empty delta), or the done marker
\* "data: [DONE]".
Chunk(content, finish) == [ kind |-> "chunk", content |-> content, finish |-> finish ]
DoneMarker == [ kind |-> "done", content |-> <<>>, finish |-> "" ]

\* The locals of process_stream when the generator object is made: no line of
\* the body has run.
CreatedStream(auth_token) ==
    [ pc |-> "created", pending |-> <<>>, cont |-> "loop", frames |-> 0,
      token |-> auth_token,
      is_image |-> FALSE, is_thinking |-> FALSE, thinking_finished |-> FALSE,
      video_progress_started |-> FALSE, last_video_progress |-> 0 - 1,
      start_time |-> 0, last_chunk_time |-> 0, first_received |-> FALSE ]

\* StreamTimeoutManager.check_timeout at loop time t: "" when no deadline has
\* passed, else which one.
check_timeout(st, cfg, t) ==
    IF ~st.first_received /\ t - st.start_time > cfg.first_timeout THEN "first"
    ELSE IF cfg.total_timeout > 0 /\ t - st.start_time > cfg.total_timeout THEN "total"
    ELSE IF st.first_received /\ t - st.last_chunk_time > cfg.chunk_timeout THEN "chunk"
    ELSE ""

\* StreamTimeoutManager.mark_received at loop time t.
mark_received(st, t) == [st EXCEPT !.last_chunk_time = t, !.first_received = TRUE]

\* filtered_tags: the configured text split at the commas. The text is given as
\* the sequence of its comma-separated items; the empty text splits into one
\* empty item.
split_tags(items) == IF items = <<>> THEN <<"">> ELSE items

\* tag in token (substring): the empty text is in every text; the token texts
\* of the model contain no other text than themselves.
Contains(tag, token) == tag = "" \/ tag = token

\* The denylist test of the chat branch.
Filtered(token, tags) ==
    token # "" /\ \E i \in 1..Len(tags) : Contains(tags[i], token)

\* What a step of the generator leaves: the locals, the frames to yield in
\* order, whether the loop goes on or the generator returns, and whether a
\* video id was registered.
Step(st, ys, cont, register) ==
    [ st |-> st, ys |-> ys, cont |-> cont, register |-> register ]

\* _build_video_content: the video element, with the address of the cached
\* copy when caching succeeded and the vendor's address otherwise.
build_video_content(f) == <<"video", IF f.cache_ok THEN "local" ELSE "remote">>

translate_video_NoRegister(st, f, cfg) ==
    LET progress == f.progress
        newer == progress > st.last_video_progress
        st1 == IF newer
               THEN [st EXCEPT !.last_video_progress = progress,
                               !.video_progress_started =
                                   IF cfg.show_thinking THEN TRUE ELSE @]
               ELSE st
        text == IF ~st.video_progress_started THEN <<"<think>", "progress">>
                ELSE IF progress < 100 THEN <<"progress">>
                ELSE <<"progress", "</think>">>
        ys1 == IF newer /\ cfg.show_thinking THEN << Chunk(text, "") >> ELSE <<>>
        ys2 == IF f.url # "" THEN << Chunk(build_video_content(f), "") >> ELSE <<>>
    IN  Step(st1, ys1 \o ys2, "loop", FALSE)

\* The video branch: progress chunks inside a reasoning block when reasoning is
\* shown, then the video content once the URL is there.
translate_video(st, f, cfg) ==
    LET progress == f.progress
        newer == progress > st.last_video_progress
        st1 == IF newer
               THEN [st EXCEPT !.last_video_progress = progress,
                               !.video_progress_started =
                                   IF cfg.show_thinking THEN TRUE ELSE @]
               ELSE st
        text == IF ~st.video_progress_started THEN <<"<think>", "progress">>
                ELSE IF progress < 100 THEN <<"progress">>
                ELSE <<"progress", "</think>">>
        ys1 == IF newer /\ cfg.show_thinking THEN << Chunk(text, "") >> ELSE <<>>
        ys2 == IF f.url # "" THEN << Chunk(build_video_content(f), "") >> ELSE <<>>
    IN  Step(st1, ys1 \o ys2, "loop", f.url = "uuid")

\* The frames of a model response in image mode: in URL mode the image
\* references are the content of the chunk with finish reason "stop"; in
\* base64 mode each image goes out in chunks of its own and the "stop" chunk
\* is empty.
image_chunks(f) ==
    IF ~f.images THEN << Chunk(<<>>, "stop") >>
    ELSE IF f.image_mode = "base64" THEN << Chunk(<<"image">>, ""), Chunk(<<>>, "stop") >>
    ELSE << Chunk(<<"image">>, "stop") >>

translate_image_ReadsOn(st, f) ==
    IF f.model_response
    THEN Step(st, image_chunks(f), "loop", FALSE)
    ELSE IF f.token # "" /\ f.token # "list"
    THEN Step(st, << Chunk(<<f.token>>, "") >>, "loop", FALSE)
    ELSE Step(st, <<>>, "loop", FALSE)

\* The image branch: the first frame with a model response ends the stream
\* with the image content and finish reason "stop"; before it tokens are
\* passed on.
translate_image(st, f) ==
    IF f.model_response
    THEN Step(st, image_chunks(f), "return", FALSE)
    ELSE IF f.token # "" /\ f.token # "list"
    THEN Step(st, << Chunk(<<f.token>>, "") >>, "loop", FALSE)
    ELSE Step(st, <<>>, "loop", FALSE)

translate_chat_Reopens(st, f, cfg) ==
    IF f.token = "list" THEN Step(st, <<>>, "loop", FALSE)
    ELSE IF Filtered(f.token, split_tags(cfg.filtered_tags)) THEN Step(st, <<>>, "loop", FALSE)
    ELSE IF f.tool_card /\ ~(f.web_search /\ f.thinking /\ cfg.show_thinking)
    THEN Step(st, <<>>, "loop", FALSE)
    ELSE IF f.token = "" /\ ~f.tool_card THEN Step(st, <<>>, "loop", FALSE)
    ELSE
    LET token == IF f.tool_card THEN <<f.token, "results">> ELSE <<f.token>>
        opens == ~st.is_thinking /\ f.thinking
        closes == st.is_thinking /\ ~f.thinking
        content == IF opens /\ cfg.show_thinking THEN <<"<think>">> \o token
                   ELSE IF closes /\ cfg.show_thinking THEN <<"</think>">> \o token
                   ELSE token
        should_skip == f.thinking /\ ~cfg.show_thinking
        st1 == [st EXCEPT !.is_thinking = f.thinking,
                          !.thinking_finished = IF closes THEN TRUE ELSE @]
    IN  Step(st1, IF should_skip THEN <<>> ELSE << Chunk(content, "") >>, "loop", FALSE)

\* The chat branch: denylist, reasoning that resumes after it ended, tool
\* cards, then the token with the reasoning delimiters.
translate_chat(st, f, cfg) ==
    IF f.token = "list" THEN Step(st, <<>>, "loop", FALSE)
    ELSE IF Filtered(f.token, split_tags(cfg.filtered_tags)) THEN Step(st, <<>>, "loop", FALSE)
    ELSE IF st.thinking_finished /\ f.thinking THEN Step(st, <<>>, "loop", FALSE)
    ELSE IF f.tool_card /\ ~(f.web_search /\ f.thinking /\ cfg.show_thinking)
    THEN Step(st, <<>>, "loop", FALSE)
    ELSE IF f.token = "" /\ ~f.tool_card THEN Step(st, <<>>, "loop", FALSE)
    ELSE
    LET token == IF f.tool_card THEN <<f.token, "results">> ELSE <<f.token>>
        opens == ~st.is_thinking /\ f.thinking
        closes == st.is_thinking /\ ~f.thinking
        content == IF opens /\ cfg.show_thinking THEN <<"<think>">> \o token
                   ELSE IF closes /\ cfg.show_thinking THEN <<"</think>">> \o token
                   ELSE token
        should_skip == f.thinking /\ ~cfg.show_thinking
        st1 == [st EXCEPT !.is_thinking = f.thinking,
                          !.thinking_finished = IF closes THEN TRUE ELSE @]
    IN  Step(st1, IF should_skip THEN <<>> ELSE << Chunk(content, "") >>, "loop", FALSE)

translate_error_GoesOn(st) == Step(st, << Chunk(<<"Error">>, "") >>, "loop", FALSE)

\* A line with an explicit vendor error: the error text with finish reason
\* "stop", the done marker, and the generator returns.
translate_error(st) ==
    Step(st, << Chunk(<<"Error">>, "stop"), DoneMarker >>, "return", FALSE)

\* The body of the loop for one line of the upstream body, at loop time t.
translate_frame(st, f, cfg, t) ==
    IF check_timeout(st, cfg, t) # ""
    THEN Step(st, << Chunk(<<>>, "stop"), DoneMarker >>, "return", FALSE)
    ELSE IF f.kind \in {"empty", "badjson", "raises", "noresp"}
    THEN Step(st, <<>>, "loop", FALSE)
    ELSE IF f.kind = "error" THEN translate_error(st)
    ELSE
    LET st1 == mark_received(st, t)
        st2 == [st1 EXCEPT !.is_image = @ \/ f.image_info]
    IN  IF f.kind = "video" THEN translate_video(st1, f, cfg)
        ELSE IF st2.is_image THEN translate_image(st2, f)
        ELSE translate_chat(st2, f, cfg)

\* The end of the upstream body: the terminal chunk and the done marker.
translate_end(st) ==
    Step(st, << Chunk(<<>>, "stop"), DoneMarker >>, "return", FALSE)

\* Mutant of translate_exception: the error delta is followed by the terminal
\* "stop" delta of the normal end.
translate_exception_ThenStop(st) ==
    Step(st, << Chunk(<<"Process error">>, "error"), Chunk(<<>>, "stop"), DoneMarker >>,
         "return", FALSE)

\* An exception out of the loop (iter_lines raises): the error chunk and the
\* done marker.
translate_exception(st) ==
    Step(st, << Chunk(<<"Process error">>, "error"), DoneMarker >>, "return", FALSE)

\* The generator goes on with the outcome r of a step: the first frame to
\* yield is emitted and the generator is suspended at that yield; with nothing
\* to yield the loop waits for the next line, or the generator returns and
\* its finally clause closes the response.
stream_continue(r) ==
    IF r.ys # <<>>
    THEN /\ output' = Append(output, Head(r.ys))
         /\ strm' = [r.st EXCEPT !.pc = "suspended", !.pending = Tail(r.ys),
                                  !.cont = r.cont]
         /\ UNCHANGED response
    ELSE IF r.cont = "loop"
    THEN /\ strm' = [r.st EXCEPT !.pc = "running", !.pending = <<>>, !.cont = "loop"]
         /\ UNCHANGED <<output, response>>
    ELSE /\ strm' = [r.st EXCEPT !.pc = "finished", !.pending = <<>>]
         /\ response' = [response EXCEPT !.closed = @ + 1]
         /\ UNCHANGED output

\* The consumer asks for the first frame: the body of the generator starts and
\* the timeout manager takes the start time.
stream_start ==
    /\ strm.pc = "created"
    /\ strm' = [strm EXCEPT !.pc = "running", !.start_time = loop_time,
                            !.last_chunk_time = loop_time]
    /\ last' = [NoOp EXCEPT !.op = "stream_start"]
    /\ UNCHANGED <<response, output, loop_time, video_token_map>>

\* A line of the upstream body arrives while the generator waits for one.
stream_line(f) ==
    /\ strm.pc = "running"
    /\ strm.frames < MaxFrames
    /\ LET r == translate_frame([strm EXCEPT !.frames = @ + 1], f, config, loop_time) IN
       /\ stream_continue(r)
       /\ IF r.register
          THEN register_video_token("v1", strm.token)
          ELSE /\ last' = [NoOp EXCEPT !.op = "stream_line", !.result = Some(f)]
               /\ UNCHANGED video_token_map
    /\ UNCHANGED loop_time

\* The upstream body ends while the generator waits for a line.
stream_end ==
    /\ strm.pc = "running"
    /\ stream_continue(translate_end(strm))
    /\ last' = [NoOp EXCEPT !.op = "stream_end"]
    /\ UNCHANGED <<loop_time, video_token_map>>

\* Reading the upstream body raises while the generator waits for a line.
stream_exception ==
    /\ strm.pc = "running"
    /\ stream_continue(translate_exception(strm))
    /\ last' = [NoOp EXCEPT !.op = "stream_exception"]
    /\ UNCHANGED <<loop_time, video_token_map>>

\* The consumer asks for the next frame while the generator is suspended at a
\* yield.
stream_resume ==
    /\ strm.pc = "suspended"
    /\ stream_continue(Step(strm, strm.pending, strm.cont, FALSE))
    /\ last' = [NoOp EXCEPT !.op = "stream_resume"]
    /\ UNCHANGED <<loop_time, video_token_map>>

\* The consumer stops. A generator suspended at a yield is closed: GeneratorExit
\* is raised at the yield and the finally clause closes the response. A
\* generator whose body never started is dropped without running any of it.
stream_stop ==
    /\ strm.pc \in {"created", "suspended"}
    /\ IF strm.pc = "created"
       THEN /\ strm' = [strm EXCEPT !.pc = "abandoned"]
            /\ UNCHANGED response
       ELSE /\ strm' = [strm EXCEPT !.pc = "closed", !.pending = <<>>]
            /\ response' = [response EXCEPT !.closed = @ + 1]
    /\ last' = [NoOp EXCEPT !.op = "stream_stop"]
    /\ UNCHANGED <<output, loop_time, video_token_map>>

\* The event loop's clock advances by one second.
stream_tick ==
    /\ loop_time < MaxStreamTime
    /\ loop_time' = loop_time + 1
    /\ last' = [NoOp EXCEPT !.op = "stream_tick"]
    /\ UNCHANGED <<strm, response, output, video_token_map>>

----------------------------------------------------------------------------
(* The parts at rest *)

\* No request is in progress and the proxy pool is not configured.
NoRequest ==
    /\ proxy = configured_proxy(None, FALSE)
    /\ config = [ retry_codes |-> {401, 429} ]
    /\ req = IdleReq
    /\ events = <<>>
    /\ tasks = <<>>

NoCall == call = IdleCall

NoVideo == video_token_map = <<>> /\ subsec = 0

NoShare == pos = [ p \in Procs |-> "none" ]

NoStream == strm = <<>> /\ response = <<>> /\ output = <<>> /\ loop_time = 0

NoCallers == callers = <<>> /\ lock = <<>>

NoSaver == saver = IdleSaver(FALSE) /\ reader = IdleReader

----------------------------------------------------------------------------
(* SpecSelect: select_token applied to every pool of a bounded family *)

\* (status, failedCount) of the drawn records: a healthy one, one below and one
\* at the failure threshold without a 4xx, one expired and then reset, one
\* expired.
HealthVariants ==
    { <<"active", 0>>, <<"active", 2>>, <<"active", 3>>,
      <<"expired", 0>>, <<"expired", 3>> }

\* A record as the pool operations leave it: add_token, then update_limits,
\* then record_failure / reset_failure.
DrawnRecord(key, rq, hq, health) ==
    LET st == health[1]
        fc == health[2]
        code == IF st = "active" /\ fc >= MAX_FAILURES THEN 500 ELSE 401
    IN  [ NewRecord(key) EXCEPT
            !.remainingQueries = rq,
            !.heavyremainingQueries = hq,
            !.status = st,
            !.failedCount = fc,
            !.lastFailureTime = IF fc = 0 THEN None ELSE Some(StartTime * 1000),
            !.lastFailureReason = IF fc = 0 THEN None ELSE Some(<<code, "error">>) ]

\* Records of the standard partition (heavy quota never probed) and of the
\* premium partition.
NormalRecords ==
    { DrawnRecord(k, rq, -1, h) : k \in Secrets, rq \in QuotaValues, h \in HealthVariants }
\* (standard quota, heavy quota) of the drawn premium records: every value of
\* either field, next to an equal and to a different value of the other.
SuperQuotaPairs ==
    { <<-1, -1>>, <<-1, 0>>, <<0, -1>>, <<0, 1>>, <<1, 0>>, <<1, 2>>, <<2, 1>>, <<2, 2>> }
SuperRecords ==
    { DrawnRecord(k, q[1], q[2], h) :
        k \in Secrets, q \in SuperQuotaPairs, h \in HealthVariants }

\* The partitions of n records with distinct keys drawn from recs.
RECURSIVE DrawnPartitions(_, _)
DrawnPartitions(recs, n) ==
    IF n = 0 THEN { <<>> }
    ELSE UNION { { Append(s, r) : r \in { x \in recs : x.key \notin Keys(s) } } :
                 s \in DrawnPartitions(recs, n - 1) }

\* The sizes (standard, premium) of the drawn pools.
DrawnSizes == { x \in (0..MaxTokens) \X (0..MaxTokens) : x[1] + x[2] <= MaxTokens }

InitSelect ==
    /\ \E nm \in DrawnSizes :
         \E a \in DrawnPartitions(NormalRecords, nm[1]) :
           \E b \in DrawnPartitions(SuperRecords, nm[2]) :
             LET pool == [ t \in TokenTypes |-> IF t = NORMAL THEN a ELSE b ] IN
             /\ token_data = [ p \in Procs |-> pool ]
             /\ store = Some(pool)
    /\ save_pending = [ p \in Procs |-> FALSE ]
    /\ now = StartTime
    /\ last = NoOp
    /\ NoRequest
    /\ NoCall /\ NoVideo /\ NoShare /\ NoStream /\ NoCallers /\ NoSaver

NextSelect ==
    /\ \E model \in ModelNames : select_token(1, model)
    /\ UNCHANGED <<reqvars, callvars, savevars, proxyvars, videovars, sharevars, streamvars>>

SpecSelect == InitSelect /\ [][NextSelect]_vars

----------------------------------------------------------------------------
(* SpecRecord: one process recording failures and successes over time *)

\* The status codes reported to record_failure: a redirect, the ends of the
\* 4xx range, the blocked-address code and a server error.
FailureCodes == {302, 400, 403, 499, 500}

AuthToken == get_token_format("abc")

InitPool ==
    /\ token_data = [ p \in Procs |-> EmptyPool ]
    /\ store = None
    /\ save_pending = [ p \in Procs |-> FALSE ]
    /\ now = StartTime
    /\ last = NoOp
    /\ NoRequest
    /\ NoCall /\ NoVideo /\ NoShare /\ NoStream /\ NoCallers /\ NoSaver

NextRecord ==
    /\ \/ \E type \in TokenTypes : add_token(1, <<"abc">>, type)
       \/ \E type \in TokenTypes : delete_token(1, <<"abc">>, type)
       \/ \E status \in FailureCodes : record_failure(1, AuthToken, status, "error")
       \/ reset_failure(1, AuthToken)
       \/ Tick
    /\ UNCHANGED <<reqvars, callvars, savevars, proxyvars, videovars, sharevars, streamvars>>

SpecRecord == InitPool /\ [][NextRecord]_vars

----------------------------------------------------------------------------
(* Spec: two processes sharing the token file *)

\* The lists given to add_token: none, a blank entry, one secret.
AddLists == { <<>>, <<" ">>, <<"abc">> }

\* The status codes reported in the shared specification.
SharedCodes == {401, 403}

\* The remaining count a quota probe reports.
ProbedQuotas == {0}

Next ==
    /\ UNCHANGED <<reqvars, callvars, savevars, proxyvars, videovars, sharevars, streamvars>>
    /\ \E p \in Procs :
      \/ \E list \in AddLists : add_token(p, list, NORMAL)
      \/ delete_token(p, <<"abc">>, NORMAL)
      \/ \E status \in SharedCodes : record_failure(p, AuthToken, status, "error")
      \/ reset_failure(p, AuthToken)
      \/ \E q \in ProbedQuotas : update_limits(p, "abc", Some(q), None)
      \/ select_token(p, "grok-3")
      \/ batch_save(p)

Spec == InitPool /\ [][Next]_vars

----------------------------------------------------------------------------
(* SpecLoss: two processes that have loaded the same token file record *)
(* failures, select and flush; nothing resets, deletes or re-adds      *)

\* The pool both processes start from: "abc" was added and saved.
LoadedPool == [EmptyPool EXCEPT ![NORMAL] = <<NewRecord("abc")>>]

InitLoss ==
    /\ token_data = [ p \in Procs |-> LoadedPool ]
    /\ store = Some(LoadedPool)
    /\ save_pending = [ p \in Procs |-> FALSE ]
    /\ now = StartTime
    /\ last = NoOp
    /\ NoRequest
    /\ NoCall /\ NoVideo /\ NoShare /\ NoStream /\ NoCallers /\ NoSaver

NextLoss ==
    /\ UNCHANGED <<reqvars, callvars, savevars, proxyvars, videovars, sharevars, streamvars>>
    /\ \/ \E p \in Procs :
            \/ record_failure(p, AuthToken, 401, "error")
            \/ select_token(p, "grok-3")
            \/ batch_save(p)
       \/ Tick

SpecLoss == InitLoss /\ [][NextLoss]_vars

----------------------------------------------------------------------------
(* SpecTorn: process 1 changes its pool and saves it to the token file *)
(* step by step while process 2 reloads the file step by step          *)

NextTorn ==
    /\ UNCHANGED <<reqvars, callvars, proxyvars, videovars, sharevars, streamvars>>
    /\ \/ /\ saver.pc = "sleeping"
          /\ \/ record_failure(1, AuthToken, 401, "error")
             \/ reset_failure(1, AuthToken)
             \/ update_token_note(1, "abc", NORMAL, " n")
             \/ update_token_tags(1, "abc", NORMAL, <<"t", " ">>)
          /\ UNCHANGED savevars
       \/ file_save_open(1)
       \/ file_save_lock(1)
       \/ file_save_write(1)
       \/ reload_open(2)
       \/ reload_lock(2)
       \/ reload_read(2, "grok-3")

SpecTorn == InitLoss /\ [][NextTorn]_vars

----------------------------------------------------------------------------
(* SpecAdmin: administrative adds and deletes in both partitions of one *)
(* process, with selection and failure accounting                        *)

NextAdmin ==
    /\ UNCHANGED <<reqvars, callvars, savevars, proxyvars, videovars, sharevars, streamvars>>
    /\ \/ \E type \in TokenTypes : add_token(1, <<"abc">>, type)
       \/ \E type \in TokenTypes : delete_token(1, <<"abc">>, type)
       \/ \E model \in ModelNames : select_token(1, model)
       \/ record_failure(1, AuthToken, 401, "error")
       \/ reset_failure(1, AuthToken)
       \/ batch_save(1)

SpecAdmin == InitPool /\ [][NextAdmin]_vars

----------------------------------------------------------------------------
(* SpecFlush: the mutations of one process, its batch save task and its *)
(* shutdown, with the token file or with a storage backend              *)

InitFlush ==
    /\ token_data = [ p \in Procs |-> EmptyPool ]
    /\ store = None
    /\ save_pending = [ p \in Procs |-> FALSE ]
    /\ now = StartTime
    /\ last = NoOp
    /\ NoRequest
    /\ \E storage \in BOOLEAN : saver = IdleSaver(storage)
    /\ reader = IdleReader
    /\ NoCall /\ NoVideo /\ NoShare /\ NoStream /\ NoCallers

\* The failedCount of a secret in the pool of process p, 0 when absent.
FailedCount(p, sso) ==
    IF find_token(token_data[p], sso) = "" THEN 0
    ELSE FoundRecord(token_data[p], sso).failedCount

\* A mutation of the pool of process 1.
Mutation ==
    \/ add_token(1, <<"abc">>, NORMAL)
    \/ delete_token(1, <<"abc">>, NORMAL)
    \/ update_token_tags(1, "abc", NORMAL, <<"t", " ">>)
    \/ update_token_note(1, "abc", NORMAL, " n")
    \/ \E q \in ProbedQuotas : update_limits(1, "abc", Some(q), None)
    \/ /\ FailedCount(1, "abc") < MaxFlushFail
       /\ record_failure(1, AuthToken, 401, "error")
    \/ reset_failure(1, AuthToken)

NextFlush ==
    /\ UNCHANGED <<reqvars, callvars, proxyvars, videovars, sharevars, streamvars, reader>>
    /\ \/ ~saver.shutdown /\ Mutation /\ UNCHANGED saver
       \/ /\ ~saver.storage /\ ~saver.shutdown
          /\ \/ batch_save(1)
             \/ select_token(1, "grok-3")
          /\ UNCHANGED saver
       \/ storage_save_begin(1)
       \/ storage_save_end(1)
       \/ shutdown(1)

SpecFlush == InitFlush /\ [][NextFlush]_vars

----------------------------------------------------------------------------
(* SpecRequest: one _request call against an upstream that answers anything *)

\* The configured retry_status_codes: the default, and one with 403 in it.
RetryCodeSets == { {401, 429}, {403, 429} }

\* What the upstream answers to one post: a status (a 200 with a body that
\* translates or one that does not), or a transport error.
UpstreamReplies ==
    { [ kind |-> "status", status |-> st, body |-> "error" ] : st \in {403, 429, 500} }
    \cup { [ kind |-> "status", status |-> 200, body |-> b ] : b \in {"ok", "bad"} }
    \cup { [ kind |-> "neterr", status |-> 0, body |-> "" ] }

\* What the pool source answers to one fetch: an address to normalise, an
\* address of an unknown scheme, a failure.
FetchReplies ==
    { [ ok |-> TRUE, addr |-> Address("socks5", "p1") ],
      [ ok |-> TRUE, addr |-> Address("ftp", "p1") ],
      [ ok |-> FALSE, addr |-> Address("", "") ] }

\* failedCount of the credential when the call starts.
StartFailures == {0, 2}

InitRequest ==
    /\ \E fc \in StartFailures :
         LET pool == [ EmptyPool EXCEPT
                         ![NORMAL] = << DrawnRecord("abc", -1, -1, <<"active", fc>>) >> ]
         IN  /\ token_data = [ p \in Procs |-> pool ]
             /\ store = Some(pool)
             /\ \E stream \in BOOLEAN :
                  req = [ IdleReq EXCEPT !.pc = "attempt", !.token = AuthToken,
                                         !.model = "grok-3", !.stream = stream,
                                         !.failed_at_start = fc ]
    /\ save_pending = [ p \in Procs |-> FALSE ]
    /\ now = StartTime
    /\ last = NoOp
    /\ \E rotating \in BOOLEAN :
         proxy = configured_proxy(Some(Address("http", "static")), rotating)
    /\ \E codes \in RetryCodeSets : config = [ retry_codes |-> codes ]
    /\ events = <<>>
    /\ tasks = <<>>
    /\ NoCall /\ NoVideo /\ NoShare /\ NoStream /\ NoCallers /\ NoSaver

NextRequest ==
    /\ \/ \E reply \in UpstreamReplies : \E fetch \in FetchReplies :
            request_attempt(reply, fetch)
       \/ \E i \in 1..Len(tasks) : run_task(i)
    /\ UNCHANGED <<callvars, savevars, proxyvars, videovars, sharevars, streamvars>>

SpecRequest == InitRequest /\ [][NextRequest]_vars

----------------------------------------------------------------------------
(* SpecProbe: a _request call that the upstream answers at once, and the *)
(* quota probe that follows a success                                     *)

\* What the upstream answers to the post of the call: success with a body that
\* translates or not, another 2xx status, a server error.
ParentReplies ==
    { [ kind |-> "status", status |-> 200, body |-> b ] : b \in {"ok", "bad"} }
    \cup { [ kind |-> "status", status |-> st, body |-> "error" ] : st \in {204, 500} }

\* What the rate-limit endpoint answers to one post of the probe: the remaining
\* count or a body without one, a body that does not decode, an error status,
\* a transport error.
ProbeReplies ==
    { [ kind |-> "status", status |-> 200, body |-> "ok", quota |-> q ] :
        q \in {None, Some(0), Some(1)} }
    \cup { [ kind |-> "status", status |-> 200, body |-> "bad", quota |-> None ] }
    \cup { [ kind |-> "status", status |-> st, body |-> "error", quota |-> None ] :
             st \in {401, 403, 500} }
    \cup { [ kind |-> "neterr", status |-> 0, body |-> "", quota |-> None ] }

InitProbe ==
    /\ \E fc \in StartFailures :
         LET pool == [ EmptyPool EXCEPT
                         ![NORMAL] = << DrawnRecord("abc", -1, -1, <<"active", fc>>) >> ]
         IN  /\ token_data = [ p \in Procs |-> pool ]
             /\ store = Some(pool)
             /\ \E stream \in BOOLEAN : \E model \in ModelNames :
                  req = [ IdleReq EXCEPT !.pc = "attempt", !.token = AuthToken,
                                         !.model = model, !.stream = stream,
                                         !.failed_at_start = fc ]
    /\ save_pending = [ p \in Procs |-> FALSE ]
    /\ now = StartTime
    /\ last = NoOp
    /\ \E rotating \in BOOLEAN :
         proxy = configured_proxy(Some(Address("http", "static")), rotating)
    /\ \E codes \in RetryCodeSets : config = [ retry_codes |-> codes ]
    /\ events = <<>>
    /\ tasks = <<>>
    /\ NoCall /\ NoVideo /\ NoShare /\ NoStream /\ NoCallers /\ NoSaver

NextProbe ==
    /\ \/ \E reply \in ParentReplies : \E fetch \in FetchReplies :
            request_attempt(reply, fetch)
       \/ \E i \in 1..Len(tasks) : run_task(i)
       \/ \E i \in 1..Len(tasks) : \E reply \in ProbeReplies : \E fetch \in FetchReplies :
            probe_attempt(i, reply, fetch)
    /\ UNCHANGED <<callvars, savevars, proxyvars, videovars, sharevars, streamvars>>

SpecProbe == InitProbe /\ [][NextProbe]_vars

----------------------------------------------------------------------------
(* SpecShare: two processes add the same credential and flush *)

\* What the token file holds when the two processes start: nothing (no file),
\* an empty pool, another credential, the credential itself with failures.
SharedStarts(type) ==
    { None,
      Some(EmptyPool),
      Some([ EmptyPool EXCEPT ![type] = << NewRecord("xyz") >> ]),
      Some([ EmptyPool EXCEPT
               ![type] = << DrawnRecord("abc", 1, -1, <<"active", 2>>) >> ]) }

\* _load_data: the file's pool, or the empty pool without a file.
load_data(file) == IF file = None THEN EmptyPool ELSE file[1]

\* Each process is to add "abc" to a partition and then flush; pos says which
\* partition and how far the process is.
InitShare ==
    /\ \E t1 \in TokenTypes : \E t2 \in TokenTypes :
         /\ pos = [ p \in Procs |-> [ at |-> "start", type |-> IF p = 1 THEN t1 ELSE t2 ] ]
         /\ store \in SharedStarts(t1)
    /\ token_data = [ p \in Procs |-> load_data(store) ]
    /\ save_pending = [ p \in Procs |-> FALSE ]
    /\ now = StartTime
    /\ last = NoOp
    /\ NoRequest
    /\ NoCall /\ NoVideo /\ NoStream /\ NoCallers /\ NoSaver

\* Process p adds the credential.
share_add(p) ==
    /\ pos[p].at = "start"
    /\ add_token(p, <<"abc">>, pos[p].type)
    /\ pos' = [pos EXCEPT ![p].at = "added"]

\* The batch save worker of process p flushes the pool with the credential.
share_flush(p) ==
    /\ pos[p].at = "added"
    /\ batch_save(p)
    /\ pos' = [pos EXCEPT ![p].at = "flushed"]

\* A request served by process p selects a credential, reloading the file.
share_select(p) ==
    /\ select_token(p, "grok-3")
    /\ UNCHANGED pos

NextShare ==
    /\ \E p \in Procs : share_add(p) \/ share_flush(p) \/ share_select(p)
    /\ UNCHANGED <<reqvars, callvars, savevars, proxyvars, videovars, streamvars>>

SpecShare == InitShare /\ [][NextShare]_vars

----------------------------------------------------------------------------
(* SpecVideo: the video affinity map over time *)

VideoIds == {"v1", "v2"}

\* The clock readings of the model, in whole seconds: the first seconds after
\* the start, and the seconds around the maximum age after them.
VideoInstants ==
    { StartTime + k : k \in 0..MaxTime }
    \cup { StartTime + video_map_max_age + k : k \in (0 - 1)..(MaxTime + 1) }

\* The milliseconds past the whole second at which things happen.
SubSeconds == {0, 500}

InitVideo ==
    /\ token_data = [ p \in Procs |-> EmptyPool ]
    /\ store = None
    /\ save_pending = [ p \in Procs |-> FALSE ]
    /\ now = StartTime
    /\ last = NoOp
    /\ NoRequest
    /\ video_token_map = <<>>
    /\ subsec \in SubSeconds
    /\ NoCall /\ NoShare /\ NoStream /\ NoCallers /\ NoSaver

NextVideo ==
    /\ \/ \E v \in VideoIds : \E k \in Secrets :
            register_video_token(v, get_token_format(k))
       \/ \E v \in VideoIds : get_video_token(v)
       \/ \E t \in VideoInstants : \E ms \in SubSeconds : pass_time(t, ms)
    /\ UNCHANGED <<token_data, store, save_pending, reqvars, callvars, savevars, proxyvars, sharevars,
                   streamvars>>

SpecVideo == InitVideo /\ [][NextVideo]_vars

----------------------------------------------------------------------------
(* SpecStream: process_stream over every short upstream body *)

\* A line of the upstream body that carries a response. With the line go the
\* answers the translator gets while it processes it: the image_mode setting
\* it reads, and whether caching the video succeeds.
RespFrame ==
    [ kind |-> "resp", token |-> "", thinking |-> FALSE, image_info |-> FALSE,
      model_response |-> FALSE, images |-> FALSE, tool_card |-> FALSE,
      web_search |-> FALSE, progress |-> 0, url |-> "", image_mode |-> "url",
      cache_ok |-> TRUE ]

\* The lines of the model: a blank line, a line that is not JSON, a line whose
\* processing raises, a vendor error, a line without response, chat tokens
\* (plain, reasoning, on the denylist), the attachment signal, a tool card
\* with search results, a model response with images in either image mode,
\* video progress and the final video.
StreamFrames ==
    { [ RespFrame EXCEPT !.kind = k ] : k \in {"empty", "badjson", "raises", "error", "noresp"} }
    \cup { [ RespFrame EXCEPT !.token = "hi" ],
           [ RespFrame EXCEPT !.token = "hm", !.thinking = TRUE ] }
    \cup { [ RespFrame EXCEPT !.token = "tag" ],
           [ RespFrame EXCEPT !.image_info = TRUE ],
           [ RespFrame EXCEPT !.thinking = TRUE, !.tool_card = TRUE, !.web_search = TRUE ],
           [ RespFrame EXCEPT !.model_response = TRUE, !.images = TRUE ],
           [ RespFrame EXCEPT !.model_response = TRUE, !.images = TRUE,
                              !.image_mode = "base64" ],
           [ RespFrame EXCEPT !.kind = "video", !.progress = 50 ],
           [ RespFrame EXCEPT !.kind = "video", !.progress = 100, !.url = "uuid" ] }

\* The configurations of the translator: reasoning shown or not, the denylist
\* empty or with one entry; the deadlines in seconds.
StreamConfigs ==
    { [ retry_codes |-> {401, 429}, show_thinking |-> sh, filtered_tags |-> tags,
        first_timeout |-> 1, chunk_timeout |-> 1, total_timeout |-> 3 ] :
      sh \in BOOLEAN, tags \in { <<>>, <<"tag">> } }

InitStream ==
    /\ token_data = [ p \in Procs |-> EmptyPool ]
    /\ store = None
    /\ save_pending = [ p \in Procs |-> FALSE ]
    /\ now = StartTime
    /\ last = NoOp
    /\ proxy = configured_proxy(None, FALSE)
    /\ config \in StreamConfigs
    /\ req = IdleReq
    /\ events = <<>>
    /\ tasks = <<>>
    /\ NoCall /\ NoVideo /\ NoShare /\ NoCallers /\ NoSaver
    /\ strm = CreatedStream(AuthToken)
    /\ response = [ closed |-> 0 ]
    /\ output = <<>>
    /\ loop_time = 0

NextStream ==
    /\ \/ stream_start
       \/ \E f \in StreamFrames : stream_line(f)
       \/ stream_end
       \/ stream_exception
       \/ stream_resume
       \/ stream_stop
       \/ stream_tick
    /\ UNCHANGED <<token_data, store, save_pending, now, subsec, reqvars, callvars, savevars, proxyvars,
                   sharevars>>

SpecStream == InitStream /\ [][NextStream]_vars

----------------------------------------------------------------------------
(* SpecProxy: two tasks calling the proxy pool over time *)

\* What the pool source answers in this specification: the replies of
\* FetchReplies and a second valid address.
ProxyReplies == FetchReplies \cup { [ ok |-> TRUE, addr |-> Address("http", "p2") ] }

\* The configured pools: with and without a static address, rotation enabled
\* or not, a refresh interval of two seconds.
ProxyPools ==
    { [ configured_proxy(static, rotating) EXCEPT !.fetch_interval = 2 ] :
      static \in { None, Some(Address("http", "static")) }, rotating \in BOOLEAN }

InitProxy ==
    /\ token_data = [ p \in Procs |-> EmptyPool ]
    /\ store = None
    /\ save_pending = [ p \in Procs |-> FALSE ]
    /\ now = StartTime
    /\ last = NoOp
    /\ proxy \in ProxyPools
    /\ config = [ retry_codes |-> {401, 429} ]
    /\ req = IdleReq
    /\ events = <<>>
    /\ tasks = <<>>
    /\ callers = [ t \in Callers |-> IdleCaller ]
    /\ lock = None
    /\ NoCall /\ NoVideo /\ NoShare /\ NoStream /\ NoSaver

NextProxy ==
    /\ \/ \E t \in Callers : \E op \in {"get_proxy", "force_refresh"} :
            proxy_call(t, op) /\ UNCHANGED <<token_data, store, save_pending>>
       \/ \E t \in Callers :
            proxy_locked(t) /\ UNCHANGED <<token_data, store, save_pending>>
       \/ \E t \in Callers : \E reply \in ProxyReplies :
            proxy_fetched(t, reply) /\ UNCHANGED <<token_data, store, save_pending>>
       \/ Tick /\ UNCHANGED <<proxy, callers, lock>>
    /\ UNCHANGED <<config, req, events, tasks, callvars, savevars, videovars, sharevars, streamvars>>

SpecProxy == InitProxy /\ [][NextProxy]_vars

----------------------------------------------------------------------------
(* SpecVideoStream: the translation of a video generation, and lookups of *)
(* the video id while time passes                                         *)

\* The lines of a video generation: progress, and the final asset URL with the
\* video id in it (caching the asset succeeds or fails) or without one.
VideoFrames ==
    { [ RespFrame EXCEPT !.kind = "video", !.progress = 50 ],
      [ RespFrame EXCEPT !.kind = "video", !.progress = 100, !.url = "uuid" ],
      [ RespFrame EXCEPT !.kind = "video", !.progress = 100, !.url = "uuid",
                         !.cache_ok = FALSE ],
      [ RespFrame EXCEPT !.kind = "video", !.progress = 100, !.url = "plain" ] }

InitVideoStream == InitStream

NextVideoStream ==
    \/ /\ \/ stream_start
          \/ \E f \in VideoFrames : stream_line(f)
          \/ stream_end
          \/ stream_resume
       /\ UNCHANGED <<token_data, store, save_pending, now, subsec, reqvars, callvars, savevars,
                      proxyvars, sharevars>>
    \/ /\ \/ get_video_token("v1")
          \/ \E t \in VideoInstants : \E ms \in SubSeconds : pass_time(t, ms)
       /\ UNCHANGED <<token_data, store, save_pending, reqvars, callvars, savevars, proxyvars,
                      sharevars, streamvars>>

SpecVideoStream == InitVideoStream /\ [][NextVideoStream]_vars

----------------------------------------------------------------------------
(* SpecChat: one logical chat call, GrokClient._retry around _request *)

\* What the upstream answers in the logical call: a retryable status, a
\* terminal one, a success.
ChatReplies ==
    { [ kind |-> "status", status |-> st, body |-> "error" ] : st \in {429, 500} }
    \cup { [ kind |-> "status", status |-> 200, body |-> "ok" ] }

\* The pools the logical call starts with: one credential, or two.
ChatPools ==
    { [ EmptyPool EXCEPT ![NORMAL] = << NewRecord("abc") >> ],
      [ EmptyPool EXCEPT ![NORMAL] = << NewRecord("abc"), NewRecord("xyz") >> ] }

InitChat ==
    /\ \E pool \in ChatPools :
         /\ token_data = [ p \in Procs |-> pool ]
         /\ store = Some(pool)
    /\ save_pending = [ p \in Procs |-> FALSE ]
    /\ now = StartTime
    /\ last = NoOp
    /\ \E rotating \in BOOLEAN :
         proxy = configured_proxy(Some(Address("http", "static")), rotating)
    /\ config = [ retry_codes |-> {401, 429} ]
    /\ req = IdleReq
    /\ events = <<>>
    /\ tasks = <<>>
    /\ \E stream \in BOOLEAN :
         call = [ IdleCall EXCEPT !.pc = "loop", !.model = "grok-3", !.stream = stream ]
    /\ NoVideo /\ NoShare /\ NoStream /\ NoCallers /\ NoSaver

NextChat ==
    /\ \/ retry_acquire
       \/ \E reply \in ChatReplies : \E fetch \in FetchReplies :
            request_attempt(reply, fetch) /\ UNCHANGED call
       \/ retry_handle
       \/ \E i \in 1..Len(tasks) : run_task(i) /\ UNCHANGED call
       \/ batch_save(1) /\ UNCHANGED <<reqvars, call>>
    /\ UNCHANGED <<proxyvars, savevars, videovars, sharevars, streamvars>>

SpecChat == InitChat /\ [][NextChat]_vars

----------------------------------------------------------------------------
(* Claims about selection *)

\* The snapshot the last select_token selected from: the pool of its process
\* right after the reload.
Snapshot == token_data[last.p]

Selected == last.op = "select_token"

\* The claims' eligibility: not expired, fewer than 3 failures, a non-zero quota.
Eligible(data, field) ==
    /\ data.status # "expired"
    /\ data.failedCount < 3
    /\ data[field] # 0

SearchedParts(model) == IF model = HeavyModel THEN {SUPER} ELSE {NORMAL, SUPER}

HasEligible(tokens, field) ==
    \E i \in 1..Len(tokens) : Eligible(tokens[i], field)

\* The partition a request draws from: premium for a heavy request; for a
\* standard request the standard partition when it has an eligible credential,
\* else the premium one.
DrawnPart(snap, model) ==
    IF model = HeavyModel THEN SUPER
    ELSE IF HasEligible(snap[NORMAL], FieldOf(model)) THEN NORMAL ELSE SUPER

\* The record of the returned key in the partition it was drawn from.
ReturnedRecord == Snapshot[last.part][IndexOf(Snapshot[last.part], last.result[1])]

\* C1: select_token returns only a credential that, in the snapshot, is not
\* expired, has fewer than 3 failures and a non-zero quota in the field of the
\* tier; it fails exactly when the partitions searched hold no such credential.
C1_AcquireEligible ==
    Selected =>
      LET f == FieldOf(last.model) IN
      /\ last.result # None =>
           /\ last.part \in SearchedParts(last.model)
           /\ last.result[1] \in Keys(Snapshot[last.part])
           /\ Eligible(ReturnedRecord, f)
      /\ last.result = None <=>
           \A t \in SearchedParts(last.model) : ~HasEligible(Snapshot[t], f)

C1_Witness ==
    /\ Selected
    /\ last.result # None
    /\ \E t \in SearchedParts(last.model) : \E i \in 1..Len(Snapshot[t]) :
         /\ ~Eligible(Snapshot[t][i], FieldOf(last.model))
         /\ Snapshot[t][i].failedCount >= 3
         /\ Snapshot[t][i].status = "active"

\* C2 as stated: if any eligible credential of the partitions searched has
\* quota -1, select_token returns a credential of quota -1 (checked on the
\* pools whose partitions share no secret).
C2_UnusedFirstAnywhere ==
    (Selected /\ Keys(Snapshot[NORMAL]) \cap Keys(Snapshot[SUPER]) = {}) =>
      LET f == FieldOf(last.model) IN
      (\E t \in SearchedParts(last.model) : \E i \in 1..Len(Snapshot[t]) :
          Eligible(Snapshot[t][i], f) /\ Snapshot[t][i][f] = -1)
      => /\ last.result # None
         /\ ReturnedRecord[f] = -1

\* C2 amended: if any eligible credential of the partition the request draws
\* from has quota -1, select_token returns a credential of that partition with
\* quota -1, never a metered one.
C2_UnusedFirstInPartition ==
    Selected =>
      LET f == FieldOf(last.model)
          part == DrawnPart(Snapshot, last.model)
      IN  (\E i \in 1..Len(Snapshot[part]) :
              Eligible(Snapshot[part][i], f) /\ Snapshot[part][i][f] = -1)
          => /\ last.result # None
             /\ last.part = part
             /\ ReturnedRecord[f] = -1

C2_Witness ==
    /\ Selected
    /\ last.result # None
    /\ ReturnedRecord[FieldOf(last.model)] = -1
    /\ \E i \in 1..Len(Snapshot[last.part]) :
         /\ Eligible(Snapshot[last.part][i], FieldOf(last.model))
         /\ Snapshot[last.part][i][FieldOf(last.model)] > 0
         /\ i < IndexOf(Snapshot[last.part], last.result[1])

\* C3: when the partition the request draws from has no unused candidate,
\* select_token returns its eligible metered candidate of greatest remaining
\* quota, and among those of equal greatest quota the first in iteration order.
C3_GreatestMetered ==
    Selected =>
      LET f == FieldOf(last.model)
          tokens == Snapshot[DrawnPart(Snapshot, last.model)]
          cands == { i \in 1..Len(tokens) : Eligible(tokens[i], f) /\ tokens[i][f] > 0 }
      IN  (/\ cands # {}
           /\ \A i \in 1..Len(tokens) : ~(Eligible(tokens[i], f) /\ tokens[i][f] = -1))
          => /\ last.result # None
             /\ last.part = DrawnPart(Snapshot, last.model)
             /\ \E i \in cands :
                  /\ tokens[i].key = last.result[1]
                  /\ \A j \in cands :
                       /\ tokens[j][f] <= tokens[i][f]
                       /\ tokens[j][f] = tokens[i][f] => i <= j

C3_Witness ==
    /\ Selected
    /\ last.result # None
    /\ LET f == FieldOf(last.model)
           tokens == Snapshot[last.part]
       IN  /\ Len(tokens) = 2
           /\ \A i \in 1..2 : Eligible(tokens[i], f) /\ tokens[i][f] > 0
           /\ tokens[1][f] = tokens[2][f]
           /\ last.result[1] = tokens[1].key

\* C4: a heavy request returns only a premium credential eligible on its heavy
\* quota, and fails rather than using the standard partition; a standard
\* request draws from the premium partition only when the standard partition
\* has no eligible credential.
C4_TierPartitions ==
    Selected =>
      /\ last.model = HeavyModel =>
           /\ last.result # None =>
                /\ last.part = SUPER
                /\ last.result[1] \in Keys(Snapshot[SUPER])
                /\ Eligible(ReturnedRecord, "heavyremainingQueries")
           /\ ~HasEligible(Snapshot[SUPER], "heavyremainingQueries") => last.result = None
      /\ last.model # HeavyModel =>
           /\ last.part = SUPER => ~HasEligible(Snapshot[NORMAL], "remainingQueries")
           /\ last.part = NORMAL => last.result[1] \in Keys(Snapshot[NORMAL])

C4_Witness ==
    /\ Selected
    /\ last.model = HeavyModel
    /\ last.result = None
    /\ HasEligible(Snapshot[NORMAL], "remainingQueries")
    /\ HasEligible(Snapshot[SUPER], "remainingQueries")

----------------------------------------------------------------------------
(* Claims about failure accounting *)

\* The record _find_token gives for secret sso in pool data has expired status.
ExpiredIn(data, sso) ==
    /\ find_token(data, sso) # ""
    /\ FoundRecord(data, sso).status = "expired"

\* C5: once a credential is expired, no later select_token returns it. Stated
\* for one step and one process: a select_token of a process whose pool holds
\* the credential as expired does not return that credential.
C5_ExpiredNeverReturned ==
    [][ \A p \in Procs :
          (/\ last'.op = "select_token"
           /\ last'.p = p
           /\ ExpiredIn(token_data[p], "abc"))
          => last'.result # Some("abc") ]_vars

\* C6: after reset_failure on a credential of the pool, its record has
\* failedCount 0 and no failure time and reason.
C6_ResetClears ==
    (last.op = "reset_failure" /\ last.found) =>
      LET r == FoundRecord(token_data[last.p], last.tok) IN
      /\ r.failedCount = 0
      /\ r.lastFailureTime = None
      /\ r.lastFailureReason = None

C6_Witness ==
    /\ last.op = "reset_failure"
    /\ last.found
    /\ FoundRecord(token_data[last.p], last.tok).status = "expired"
    /\ FoundRecord(token_data[last.p], last.tok).failedCount = 0

\* C7: record_failure with status 403 leaves every record of the pool, the
\* dirty flag and the file unchanged.
C7_BlockedNotPenalised ==
    [][ (last'.op = "record_failure" /\ last'.status = 403)
        => /\ token_data' = token_data
           /\ save_pending' = save_pending
           /\ store' = store ]_vars

C7_Witness ==
    /\ last.op = "record_failure"
    /\ last.status = 403
    /\ last.found
    /\ ~save_pending[last.p]
    /\ FoundRecord(token_data[last.p], last.tok).failedCount = 2

\* C8: record_failure with a status other than 403 on a known credential adds
\* exactly 1 to failedCount and stamps the time and the reason; the record is
\* expired afterwards exactly when it was expired before or the new count is at
\* least 3 and the status is in [400,500); a status outside [400,500) leaves the
\* status as it was.
C8_CountedFailure ==
    [][ (last'.op = "record_failure" /\ last'.status # 403 /\ last'.found) =>
          LET old == FoundRecord(token_data[last'.p], last'.tok)
              new == FoundRecord(token_data'[last'.p], last'.tok)
              is4xx == last'.status >= 400 /\ last'.status < 500
          IN  /\ new.failedCount = old.failedCount + 1
              /\ new.lastFailureTime = Some(now * 1000)
              /\ new.lastFailureReason = Some(<<last'.status, "error">>)
              /\ new.status = "expired" <=>
                   (old.status = "expired" \/ (new.failedCount >= 3 /\ is4xx))
              /\ ~is4xx => new.status = old.status
              /\ save_pending'[last'.p] ]_vars

C8_Witness ==
    /\ last.op = "record_failure"
    /\ last.status = 500
    /\ last.found
    /\ FoundRecord(token_data[last.p], last.tok).failedCount = 3
    /\ FoundRecord(token_data[last.p], last.tok).status = "active"
    /\ FoundRecord(token_data[last.p], last.tok).lastFailureTime = Some((StartTime + 1) * 1000)

----------------------------------------------------------------------------
(* Claims about the request executor *)

\* What the upstream answered so far, in order: a status, or 0 for a transport
\* error.
RECURSIVE StatusesOf(_)
StatusesOf(evs) ==
    IF evs = <<>> THEN <<>>
    ELSE (IF Head(evs)[1] \in {"post", "neterr"} THEN <<Head(evs)[2]>> ELSE <<>>)
         \o StatusesOf(Tail(evs))

\* The waits so far, in milliseconds, in order.
RECURSIVE SleepsOf(_)
SleepsOf(evs) ==
    IF evs = <<>> THEN <<>>
    ELSE (IF Head(evs)[1] = "sleep" THEN <<Head(evs)[2]>> ELSE <<>>) \o SleepsOf(Tail(evs))

CountOf(evs, name) == Cardinality({ i \in 1..Len(evs) : evs[i][1] = name })

\* The 200 answered, if any, had a body that translates.
Translated == \A i \in 1..Len(events) : events[i] # <<"translate", 0>>

CredentialFailures == FoundRecord(token_data[1], "abc").failedCount

\* C9: with rotation enabled and the answers 403, 403, 200, the call goes on
\* after each 403 (a 0.5 s wait, then one force_refresh before the next post),
\* succeeds on the 200 with exactly two force_refresh calls, creates no
\* record_failure task, and failedCount does not grow.
C9_RotationRetries ==
    proxy.enabled =>
      /\ StatusesOf(events) = <<403>> =>
           /\ req.pc = "attempt"
           /\ events = << <<"get_proxy", 0>>, <<"post", 403>>, <<"sleep", 500>> >>
           /\ CredentialFailures <= req.failed_at_start
      /\ StatusesOf(events) = <<403, 403>> =>
           /\ req.pc = "attempt"
           /\ events = << <<"get_proxy", 0>>, <<"post", 403>>, <<"sleep", 500>>,
                          <<"force_refresh", 0>>, <<"post", 403>>, <<"sleep", 500>> >>
           /\ CredentialFailures <= req.failed_at_start
      /\ (StatusesOf(events) = <<403, 403, 200>> /\ Translated) =>
           /\ req.pc = "done"
           /\ req.outcome = "ok"
           /\ CountOf(events, "force_refresh") = 2
           /\ CountOf(events, "record_failure") = 0
           /\ events = << <<"get_proxy", 0>>, <<"post", 403>>, <<"sleep", 500>>,
                          <<"force_refresh", 0>>, <<"post", 403>>, <<"sleep", 500>>,
                          <<"force_refresh", 0>>, <<"post", 200>>, <<"reset_failure", 0>>,
                          <<"translate", 1>>, <<"update_limits", 0>> >>
           /\ \A i \in 1..Len(tasks) : tasks[i].name # "record_failure"
           /\ CredentialFailures <= req.failed_at_start

C9_Witness ==
    /\ proxy.enabled
    /\ StatusesOf(events) = <<403, 403, 200>>
    /\ req.outcome = "ok"
    /\ req.failed_at_start = 2
    /\ CredentialFailures = 0

\* C10: with the default retryable set and the answers 429, 429, 200, the
\* call waits 0.1 s and then 0.2 s, succeeds on the third outer attempt and
\* creates no record_failure task; a third 429 is followed by a wait of 0.3 s.
C10_OuterBackoff ==
    config.retry_codes = {401, 429} =>
      /\ StatusesOf(events) = <<429>> =>
           /\ req.pc = "attempt" /\ req.outer_retry = 1
           /\ SleepsOf(events) = <<100>>
      /\ StatusesOf(events) = <<429, 429>> =>
           /\ req.pc = "attempt" /\ req.outer_retry = 2
           /\ SleepsOf(events) = <<100, 200>>
      /\ StatusesOf(events) = <<429, 429, 429>> =>
           /\ req.pc = "attempt" /\ req.outer_retry = 3
           /\ SleepsOf(events) = <<100, 200, 300>>
      /\ (StatusesOf(events) = <<429, 429, 200>> /\ Translated) =>
           /\ req.pc = "done"
           /\ req.outcome = "ok"
           /\ req.outer_retry = 2
           /\ events = << <<"get_proxy", 0>>, <<"post", 429>>, <<"sleep", 100>>,
                          <<"get_proxy", 0>>, <<"post", 429>>, <<"sleep", 200>>,
                          <<"get_proxy", 0>>, <<"post", 200>>, <<"reset_failure", 0>>,
                          <<"translate", 1>>, <<"update_limits", 0>> >>
           /\ \A i \in 1..Len(tasks) : tasks[i].name # "record_failure"
           /\ CredentialFailures <= req.failed_at_start

C10_Witness ==
    /\ config.retry_codes = {401, 429}
    /\ StatusesOf(events) = <<429, 429, 200>>
    /\ req.outcome = "ok"
    /\ SleepsOf(events) = <<100, 200>>
    /\ req.failed_at_start = 2
    /\ CredentialFailures = 0

----------------------------------------------------------------------------
(* Claims about the logical call and the retry levels *)

\* Every answer of the upstream so far was a status of the retryable set.
AllRetryable ==
    /\ StatusesOf(events) # <<>>
    /\ \A i \in 1..Len(StatusesOf(events)) : StatusesOf(events)[i] \in config.retry_codes

\* C11: when every answer of the upstream in one logical chat call is in the
\* retryable set, the call makes exactly 4 upstream attempts and then raises
\* the error of the last status: never a fifth attempt, and no end of the call
\* before the fourth.
C11_FourAttempts ==
    AllRetryable =>
      /\ Len(StatusesOf(events)) <= MAX_OUTER_RETRY + 1
      /\ call.pc = "raised" =>
           /\ Len(StatusesOf(events)) = MAX_OUTER_RETRY + 1
           /\ call.error_code = "HTTP_ERROR"
           /\ call.status = StatusesOf(events)[Len(StatusesOf(events))]

\* C15: a logical chat call that ends with the error of a status has called
\* record_failure exactly once, with that status; no record_failure is called
\* for an answer after which the call went on, so never more than one in a
\* call, and none in a call that returns a result.
C15_OneFailureRecord ==
    /\ CountOf(events, "record_failure") <= 1
    /\ (call.pc = "raised" /\ call.error_code = "HTTP_ERROR") =>
         /\ CountOf(events, "record_failure") = 1
         /\ events[Len(events)] = <<"record_failure", call.status>>
    /\ call.pc = "returned" => CountOf(events, "record_failure") = 0

\* n answers, all 403.
RECURSIVE Blocked(_)
Blocked(n) == IF n = 0 THEN <<>> ELSE Append(Blocked(n - 1), 403)

\* The shape of the inner level in the log of a call: a force_refresh comes
\* only right after a 403 and its 0.5 s wait, a 0.5 s wait comes only right
\* after a 403, and what follows such a wait is one force_refresh and the
\* next post.
InnerShape ==
    \A i \in 1..Len(events) :
      /\ events[i] = <<"force_refresh", 0>> =>
           /\ i >= 3
           /\ events[i - 1] = <<"sleep", InnerDelayMs>>
           /\ events[i - 2] = <<"post", 403>>
      /\ events[i] = <<"sleep", InnerDelayMs>> =>
           /\ i >= 2
           /\ events[i - 1] = <<"post", 403>>
           /\ i < Len(events) => events[i + 1] = <<"force_refresh", 0>>
           /\ i + 1 < Len(events) => events[i + 2][1] \in {"post", "neterr"}

C13_BlockedTerminal ==
    (~proxy.enabled /\ 403 \notin config.retry_codes) =>
      /\ CountOf(events, "force_refresh") = 0
      /\ \A i \in 1..Len(events) :
           events[i] = <<"post", 403>> =>
             /\ Len(events) = i + 1
             /\ events[i + 1] = <<"record_failure", 403>>
             /\ req.pc = "done"
             /\ req.outcome = "HTTP_ERROR"
             /\ req.status = 403
             /\ \/ \E k \in 1..Len(tasks) :
                      tasks[k].name = "record_failure" /\ tasks[k].status = 403
                \/ last.op = "record_failure" /\ last.status = 403
      /\ StatusesOf(events) = <<403>> =>
           events = << <<"get_proxy", 0>>, <<"post", 403>>, <<"record_failure", 403>> >>

C13_Witness ==
    /\ ~proxy.enabled
    /\ 403 \notin config.retry_codes
    /\ events = << <<"get_proxy", 0>>, <<"post", 403>>, <<"record_failure", 403>> >>
    /\ req.outcome = "HTTP_ERROR"
    /\ tasks = <<>>
    /\ last.op = "record_failure"
    /\ CredentialFailures = req.failed_at_start

----------------------------------------------------------------------------
(* Claims about the success path and the quota probe *)

\* The upstream answered the call with a status of the set sts.
Answered(sts) == \E i \in 1..Len(events) : events[i][1] = "post" /\ events[i][2] \in sts

\* A reset_failure task for the credential of the call is pending.
ResetPending ==
    \E k \in 1..Len(tasks) : tasks[k].name = "reset_failure" /\ tasks[k].token = req.token

----------------------------------------------------------------------------
(* Claims about the video affinity map *)

\* The clock reading of a registration and of the present, in milliseconds.
RegisteredAt(e) == e.timestamp * 1000 + e.ms
ClockMs == now * 1000 + subsec

\* C16 as stated: a lookup at a time strictly less than 3600 s after the
\* registration of the entry returns its credential and leaves the map alone;
\* a lookup at or after that time returns None and the entry is gone
\* afterwards; a lookup of an id without entry returns None.
C16_AffinityWindow ==
    [][ last'.op = "get_video_token" =>
          LET i == IndexOf(video_token_map, last'.tok) IN
          IF i = 0 THEN last'.result = None
          ELSE IF ClockMs < RegisteredAt(video_token_map[i]) + video_map_max_age * 1000
          THEN /\ last'.result = Some(video_token_map[i].token)
               /\ video_token_map' = video_token_map
          ELSE /\ last'.result = None
               /\ IndexOf(video_token_map', last'.tok) = 0 ]_vars

\* C16 amended: the same with both times truncated to whole seconds: the
\* credential is returned while the whole-second clock reading is less than
\* 3600 after the whole-second reading at registration, and from then on the
\* lookup returns None and removes the entry.
C16_AffinityWindowInSeconds ==
    [][ last'.op = "get_video_token" =>
          LET i == IndexOf(video_token_map, last'.tok) IN
          IF i = 0 THEN last'.result = None /\ video_token_map' = video_token_map
          ELSE IF now < video_token_map[i].timestamp + video_map_max_age
          THEN /\ last'.result = Some(video_token_map[i].token)
               /\ video_token_map' = video_token_map
          ELSE /\ last'.result = None
               /\ IndexOf(video_token_map', last'.tok) = 0
               /\ \A v \in VideoIds \ {last'.tok} :
                    IndexOf(video_token_map', v) # 0 <=> IndexOf(video_token_map, v) # 0 ]_vars

C16_Witness ==
    /\ last.op = "get_video_token"
    /\ last.found
    /\ last.result = None
    /\ IndexOf(video_token_map, last.tok) = 0
    /\ now = StartTime + video_map_max_age
    /\ video_token_map # <<>>

----------------------------------------------------------------------------
(* Claims about the shared token file *)

\* The number of records a pool holds for a secret, over both partitions.
RecordsFor(pool, key) ==
    Cardinality({ x \in TokenTypes \X (1..(Len(pool[NORMAL]) + Len(pool[SUPER]))) :
                    x[2] <= Len(pool[x[1]]) /\ pool[x[1]][x[2]].key = key })

\* C17: when both processes add "abc" to the same partition and flush, the
\* file holds at most one record for "abc", at every point of every
\* interleaving of the adds, the flushes and the reloads.
C17_OneRecordPerSecret ==
    (pos[1].type = pos[2].type /\ store # None) => RecordsFor(store[1], "abc") <= 1

C17_Witness ==
    /\ pos[1].type = pos[2].type
    /\ pos[1].at = "flushed"
    /\ pos[2].at = "flushed"
    /\ RecordsFor(store[1], "abc") = 1
    /\ RecordsFor(store[1], "xyz") = 1
    /\ last.op = "batch_save"

----------------------------------------------------------------------------
(* The streaming translator's exits *)

\* The generator is over: it returned, the consumer closed it at a yield, or
\* the consumer dropped it before its body started.
StreamOver == strm.pc \in {"finished", "closed", "abandoned"}

\* The number of done markers emitted to the client.
DoneCount == Cardinality({ k \in 1..Len(output) : output[k] = DoneMarker })

\* C18: a stream on which no line arrives for first_timeout seconds after its
\* start emits the terminal "stop" delta and the done marker without a further
\* line from upstream: the translator is never found still waiting for its
\* first line, with nothing emitted, once more than first_timeout seconds have
\* passed since the start.
C18_FirstTimeoutWithoutFrame ==
    ~ ( /\ strm.pc = "running"
        /\ strm.frames = 0
        /\ output = <<>>
        /\ loop_time - strm.start_time > config.first_timeout )

\* C19: on every exit path of the streaming translator the last frame emitted
\* to the client is the done marker, and the done marker is emitted exactly
\* once.
C19_DoneMarkerLast ==
    strm.pc = "finished" =>
        /\ output # <<>>
        /\ output[Len(output)] = DoneMarker
        /\ DoneCount = 1

\* C20: the upstream connection handed to the streaming translator is never
\* closed twice, and once the generator is over, on whichever exit path
\* (return, close at a yield, consumer stopping before the first iteration), it
\* has been closed exactly once.
C20_ClosedExactlyOnce ==
    /\ response.closed <= 1
    /\ StreamOver => response.closed = 1

----------------------------------------------------------------------------
(* Claims about the proxy pool *)

\* The fetch that has just ended gave no usable address: the pool source did
\* not answer 200, or the address it gave has an invalid scheme.
FetchFailed(l) == l.status # 200 \/ ~validate_proxy(normalize_proxy(l.result[1]))

\* C21: get_proxy and force_refresh never raise: a call whose fetch fails (no
\* 200 answer, timeout, exception) or yields an address with an invalid scheme
\* returns the address cached before the fetch if there is one and the static
\* address otherwise.
C21_FetchFailureFallsBack ==
    [][ \A t \in Callers :
          ( /\ callers[t].pc = "fetching"
            /\ callers'[t].pc # "fetching"
            /\ FetchFailed(last') )
          => /\ callers'[t].pc = "done"
             /\ callers'[t].ret = IF proxy.current_proxy # None
                                  THEN proxy.current_proxy
                                  ELSE proxy.static_proxy ]_vars

C21_Witness ==
    /\ last.op = "fetch_proxy"
    /\ FetchFailed(last)
    /\ callers[last.p].pc = "done"
    /\ callers[last.p].ret = Some(Address("socks5h", "p1"))
    /\ proxy.static_proxy = Some(Address("http", "static"))

\* C22: with rotation enabled every force_refresh call performs exactly one
\* fetch whatever the age of the cached address, a successful fetch makes it
\* return the new address, and a get_proxy call within fetch_interval of a
\* successful fetch returns the cached address without fetching; with rotation
\* disabled both calls return the static address and nothing is fetched.
C22_ForceRefreshFetchesOnce ==
    [][ \A t \in Callers :
          /\ ( callers'[t].pc = "done" /\ callers'[t].op = "force_refresh" /\ proxy.enabled )
             => callers'[t].fetched = 1
          /\ ( /\ callers[t].pc = "fetching" /\ callers'[t].pc = "done"
               /\ callers[t].op = "force_refresh"
               /\ ~FetchFailed(last') )
             => callers'[t].ret = Some(normalize_proxy(last'.result[1]))
          /\ ( /\ last'.op = "get_proxy" /\ last'.p = t
               /\ proxy.enabled
               /\ proxy.current_proxy # None
               /\ now - proxy.last_fetch_time < proxy.fetch_interval )
             => /\ callers'[t].pc = "done"
                /\ callers'[t].fetched = 0
                /\ callers'[t].ret = proxy.current_proxy
          /\ ~proxy.enabled
             => /\ callers'[t].fetched = 0
                /\ callers'[t].pc \in {"idle", "done"}
                /\ callers'[t].pc = "done" => callers'[t].ret = proxy.static_proxy ]_vars

C22_Witness ==
    /\ proxy.enabled
    /\ callers[1].pc = "done" /\ callers[1].op = "force_refresh" /\ callers[1].fetched = 1
    /\ callers[1].ret = Some(Address("http", "p2"))
    /\ last.op = "get_proxy" /\ last.p = 2
    /\ callers[2].pc = "done" /\ callers[2].fetched = 0
    /\ callers[2].now > proxy.last_fetch_time
    /\ callers[2].ret = Some(Address("http", "p2"))

\* C30: when several tasks call get_proxy while the cached address is absent or
\* stale, one fetch serves them all, whether it succeeds or fails: at no time
\* are two fetches in flight, and a get_proxy call that waited for the lock
\* behind the fetch of another get_proxy call starts no fetch of its own.
C30_OneFetchForAll ==
    /\ Cardinality({ t \in Callers : callers[t].pc = "fetching" }) <= 1
    /\ \A t \in Callers :
         ( callers[t].op = "get_proxy" /\ callers[t].queued = "get_proxy" )
         => callers[t].fetched = 0

----------------------------------------------------------------------------
(* Claims about the translation of a stream *)

\* A chunk that opens the reasoning block of a chat stream, one that closes
\* it, and one that carries reasoning text or the search results of a tool
\* card.
ChatOpen(c) ==
    c.kind = "chunk" /\ Len(c.content) >= 2 /\ c.content[1] = "<think>"
    /\ c.content[2] # "progress"
ChatClose(c) == c.kind = "chunk" /\ c.content # <<>> /\ c.content[1] = "</think>"
Reasoning(c) == \E k \in 1..Len(c.content) : c.content[k] \in {"hm", "results"}

\* The line read by the last step, when that step read one.
LineRead(l) == l.op = "stream_line" /\ l.result # None

C24_ImageModeStops ==
    [][ /\ ( /\ LineRead(last')
             /\ last'.result[1].kind = "resp" /\ last'.result[1].model_response
             /\ strm.is_image \/ last'.result[1].image_info
             /\ check_timeout(strm, config, loop_time) = "" )
           => /\ strm'.cont = "return"
              /\ LET ys == SubSeq(output', Len(output) + 1, Len(output')) \o strm'.pending
                 IN  /\ ys # <<>>
                     /\ ys[Len(ys)].finish = "stop"
                     /\ \A k \in 1..(Len(ys) - 1) : ys[k].finish = ""
                     /\ \E k \in 1..Len(ys) : ys[k].content = <<"image">>
        /\ strm.cont = "return"
           => /\ strm'.frames = strm.frames
              /\ strm'.cont = "return"
        /\ \A i \in 1..Len(output') : \A j \in (i + 1)..Len(output') :
             output'[i].finish = "stop" => output'[j] = DoneMarker ]_vars

C24_Witness ==
    /\ strm.pc = "finished"
    /\ strm.is_image
    /\ strm.frames = 2
    /\ output = << Chunk(<<"image">>, ""), Chunk(<<>>, "stop") >>
    /\ response.closed = 1

\* C26: in streaming mode the first line that carries an explicit vendor
\* error makes the translator emit one terminal error delta followed by the
\* done marker and stop; no line after it is read or translated.
C26_VendorErrorAborts ==
    [][ /\ ( /\ LineRead(last')
             /\ last'.result[1].kind = "error"
             /\ check_timeout(strm, config, loop_time) = "" )
           => /\ strm'.cont = "return"
              /\ strm'.pc = "suspended"
              /\ SubSeq(output', Len(output) + 1, Len(output')) \o strm'.pending
                 = << Chunk(<<"Error">>, "stop"), DoneMarker >>
        /\ ( /\ strm.cont = "return"
             /\ \E k \in 1..Len(output) : output[k] = Chunk(<<"Error">>, "stop") )
           => /\ strm'.frames = strm.frames
              /\ output' \in { output, Append(output, DoneMarker) }
              /\ strm'.pc \in {"suspended", "finished", "closed"} ]_vars

C26_Witness ==
    /\ strm.pc = "finished"
    /\ strm.frames = 1
    /\ output = << Chunk(<<"Error">>, "stop"), DoneMarker >>
    /\ response.closed = 1
    /\ last.op = "stream_resume"

\* A chunk with the video element.
VideoChunk(c) == c.kind = "chunk" /\ c.content # <<>> /\ c.content[1] = "video"

\* C25: a video line with the final asset URL registers the video id of the
\* URL in the affinity map against the credential of this call and makes the
\* translator emit a content delta with the video; a lookup of the id within
\* the maximum age (in whole seconds, as the map counts it) returns that
\* credential, whether or not caching the asset succeeded.
C25_VideoRegistered ==
    [][ /\ ( /\ LineRead(last')
             /\ last'.result[1].kind = "video"
             /\ check_timeout(strm, config, loop_time) = "" )
           => last'.result[1].url # "uuid"
        /\ last'.op = "register_video_token"
           => /\ LET i == IndexOf(video_token_map', "v1") IN
                   /\ i # 0
                   /\ video_token_map'[i].token = strm.token
                   /\ video_token_map'[i].timestamp = now
              /\ LET ys == SubSeq(output', Len(output) + 1, Len(output')) \o strm'.pending
                 IN  ys # <<>> /\ VideoChunk(ys[Len(ys)])
        /\ ( /\ last'.op = "get_video_token"
             /\ \E k \in 1..Len(output) : VideoChunk(output[k])
             /\ IndexOf(video_token_map, "v1") # 0
             /\ now < video_token_map[IndexOf(video_token_map, "v1")].timestamp
                      + video_map_max_age )
           => last'.result = Some(strm.token) ]_vars

C25_Witness ==
    /\ last.op = "get_video_token"
    /\ last.result = Some(strm.token)
    /\ now = StartTime + video_map_max_age - 1
    /\ \E k \in 1..Len(output) : output[k] = Chunk(<<"video", "remote">>, "")

----------------------------------------------------------------------------
(* Claims about the credential of a logical call *)

\* C28: one logical chat call acquires a credential from the pool exactly
\* once, at its start, and all its upstream attempts carry that credential:
\* the call never asks the pool for a credential a second time.
C28_AcquiredOnce == CountOf(events, "get_token") <= 1

----------------------------------------------------------------------------
(* Claims about the partitions *)

\* C29: in every reachable pool state the standard and the premium partition
\* are disjoint: no secret is a key of both, after any sequence of
\* administrative adds and deletes.
C29_PartitionsDisjoint ==
    \A p \in Procs : Keys(token_data[p][NORMAL]) \cap Keys(token_data[p][SUPER]) = {}

----------------------------------------------------------------------------
(* Claims about persistence *)

\* The operations that are mutations of the pool.
MutationOps ==
    { "add_token", "delete_token", "update_token_tags", "update_token_note",
      "update_limits", "record_failure", "reset_failure" }

\* Every step that changes the pool of a process by one of its mutations sets
\* the dirty flag and leaves the store alone: the store is written by the
\* batch save task and by shutdown only.
MutationMarksDirty ==
    [][ \A p \in Procs :
          ( last'.op \in MutationOps /\ token_data'[p] # token_data[p] )
          => save_pending'[p] /\ store' = store ]_vars

\* C27: every counted mutation sets the dirty flag, the store is written by
\* the interval flush and the final flush only, and when shutdown has
\* completed the store holds the pool as it is in memory (a pool that was never
\* changed needs no store).
C27_ShutdownFlushes ==
    saver.shutdown
    => \/ store = Some(token_data[1])
       \/ store = None /\ token_data[1] = EmptyPool

\* C40: when the suspended save of the batch save task returns and the pool
\* was changed while it was suspended, the dirty flag is still set afterwards.
C40_MutationDuringFlushKept ==
    [][ ( /\ saver.pc = "saving"
          /\ saver'.pc = "sleeping"
          /\ Some(token_data[1]) # saver.snapshot )
        => save_pending'[1] ]_vars

----------------------------------------------------------------------------
(* Claims about failures under reload and flush *)

\* The failure count of "abc" in the store: what an acquire call sees, since
\* select_token replaces the pool of its process by the store before it reads.
StoredCount ==
    IF IndexOf(store[1][NORMAL], "abc") = 0 THEN 0
    ELSE store[1][NORMAL][IndexOf(store[1][NORMAL], "abc")].failedCount

\* C31: with no success reset, delete or re-add, the failure count that
\* successive acquire calls of either process see (the count in the store they
\* reload) never decreases, whatever the interleaving of failures, reloads and
\* flushes.
C31_FailuresNeverDecrease ==
    [][ StoredCount' >= StoredCount ]_vars

\* C32: no read of the token file under the shared lock returns an empty or
\* partial document: each returns a whole document that was written.
C32_NoTornRead == reader.got # "empty"

----------------------------------------------------------------------------
(* Claims about errors, deadlines and delimiters in a stream *)

\* C33: a line whose processing raises an error other than a JSON decode error
\* aborts the stream with one processing-error delta followed by the done
\* marker; a line that is not JSON is skipped and emits nothing, and the
\* translator goes on reading.
C33_FrameErrorAborts ==
    [][ /\ ( /\ LineRead(last')
             /\ last'.result[1].kind = "raises"
             /\ check_timeout(strm, config, loop_time) = "" )
           => /\ strm'.cont = "return"
              /\ SubSeq(output', Len(output) + 1, Len(output')) \o strm'.pending
                 = << Chunk(<<"Process error">>, "error"), DoneMarker >>
        /\ ( /\ LineRead(last')
             /\ last'.result[1].kind = "badjson"
             /\ check_timeout(strm, config, loop_time) = "" )
           => /\ output' = output
              /\ strm'.pc = "running" ]_vars

\* C34: every frame received from upstream (a line that is a JSON document,
\* with or without a response in it) restarts the per-chunk deadline and
\* counts as the first byte, so that frames arriving close enough to each
\* other never run into a timeout; a line read after a deadline has passed
\* gives one terminal "stop" delta and the done marker and ends the reading.
C34_EveryFrameRestartsDeadline ==
    [][ /\ ( /\ LineRead(last')
             /\ last'.result[1].kind \in {"noresp", "resp", "video"}
             /\ check_timeout(strm, config, loop_time) = "" )
           => /\ strm'.last_chunk_time = loop_time
              /\ strm'.first_received
        /\ ( /\ LineRead(last')
             /\ check_timeout(strm, config, loop_time) # "" )
           => /\ strm'.cont = "return"
              /\ SubSeq(output', Len(output) + 1, Len(output')) \o strm'.pending
                 = << Chunk(<<>>, "stop"), DoneMarker >> ]_vars

\* The token has one of the configured denylist entries in it.
Denied(token, entries) == \E i \in 1..Len(entries) : entries[i] = token

\* C35: in a chat stream a line with a token is dropped by the denylist rule
\* exactly when the token contains a configured entry: a plain text token that
\* contains none reaches the client, with no entry configured too, and a token
\* that contains one emits nothing.
C35_DenylistDropsOnlyMatches ==
    [][ ( /\ LineRead(last')
          /\ last'.result[1].kind = "resp"
          /\ ~strm.is_image /\ ~last'.result[1].image_info
          /\ ~last'.result[1].thinking /\ ~last'.result[1].tool_card
          /\ last'.result[1].token \in {"hi", "tag"}
          /\ check_timeout(strm, config, loop_time) = "" )
        => IF Denied(last'.result[1].token, config.filtered_tags)
           THEN output' = output
           ELSE /\ Len(output') = Len(output) + 1
                /\ \E k \in 1..Len(output'[Len(output')].content) :
                     output'[Len(output')].content[k] = last'.result[1].token ]_vars

----------------------------------------------------------------------------
(* Claims about the state a call leaves behind *)

\* C36: once a call that the upstream answered 200 has ended and the tasks it
\* created (the success reset, the quota probe) have all run to their end, the
\* credential used has no failure counted, whatever the rate-limit endpoint
\* answered to the probe.
C36_SuccessLeavesNoFailure ==
    ( Answered({200}) /\ req.pc = "done" /\ tasks = <<>> ) => CredentialFailures = 0

----------------------------------------------------------------------------
(* Claims about the termination of a request *)

\* The upstream requests the call has issued: those answered and those that
\* failed in transport.
Posts == Cardinality({ i \in 1..Len(events) : events[i][1] \in {"post", "neterr"} })

\* The most requests one call can issue: every outer attempt with all its
\* inner retries.
MostPosts == (MAX_OUTER_RETRY + 1) * (max_403_retries + 1)

\* What is left of the two loops of the call: it decreases with every pass
\* that does not end the call and is never negative.
Rank(rq) ==
    (MAX_OUTER_RETRY - rq.outer_retry) * (max_403_retries + 2)
    + (max_403_retries + 1 - rq.retry_403_count)

----------------------------------------------------------------------------
(* Claims about the terminal delta of a stream *)

\* The deltas emitted so far that carry a finish reason.
Finishes == { k \in 1..Len(output) : output[k].kind = "chunk" /\ output[k].finish # "" }

\* C38: a stream never holds two deltas with a finish reason, nothing but the
\* done marker follows a delta with a finish reason, and a stream that the
\* translator ran to its end (normal end, timeout, vendor error, image
\* completion, exception) holds exactly one.
C38_OneFinishReason ==
    /\ Cardinality(Finishes) <= 1
    /\ \A i \in Finishes : \A j \in (i + 1)..Len(output) : output[j] = DoneMarker
    /\ strm.pc = "finished" => Cardinality(Finishes) = 1

C38_Witness ==
    /\ strm.pc = "finished"
    /\ last.op = "stream_resume"
    /\ output = << Chunk(<<"hi">>, ""), Chunk(<<"Process error">>, "error"), DoneMarker >>

\* A delta with the reasoning open delimiter, and one with the close
\* delimiter, of a chat or of a video progress.
Opens(c) == c.kind = "chunk" /\ \E n \in 1..Len(c.content) : c.content[n] = "<think>"
Closes(c) == c.kind = "chunk" /\ \E n \in 1..Len(c.content) : c.content[n] = "</think>"

\* C39: every reasoning open delimiter the translator emitted is followed by
\* a close delimiter before the delta with the finish reason.
C39_ReasoningClosedBeforeEnd ==
    \A k \in Finishes : \A i \in 1..(k - 1) :
        Opens(output[i]) => \E j \in i..(k - 1) : Closes(output[j])

====
